---------------------------- MODULE Spec2Model ----------------------------
(***************************************************************************)
(* Message triage pipeline of the Telegram secretary: the message store,   *)
(* the digest scheduler (scheduler.py), the filter cache and the ingestion *)
(* pipeline (userbot.py) and the feedback handlers (bot.py).               *)
(*                                                                         *)
(* Every coroutine is cut at its await points: one action is the code      *)
(* between two awaits, which asyncio runs without interleaving.            *)
(***************************************************************************)
EXTENDS Integers, Sequences, FiniteSets, TLC

\* ------------------------------------------------------------------ bounds
MaxMsgs == 2            \* rows the messages table may reach
MaxTime == 3            \* the clock runs 1..MaxTime
MaxCap  == 2            \* largest configured max_messages_per_summary
MaxIngest == 1          \* records the ingestion pipeline persists in a behaviour
MaxTaps == 2            \* button presses waiting in the update queue
MaxLength == 102        \* longest message text, in characters

\* utils.py and userbot.py constants
SCORE_MENTION            == 3
MIN_TEXT_LENGTH_FOR_TOPIC  == 10
AI_TOPIC_SUMMARY_MAX_WORDS == 5
SCORE_QUESTION           == 2
SCORE_LONG_MESSAGE       == 1
SCORE_HIGH_PRIORITY_USER == 2
MIN_LONG_MESSAGE_LENGTH  == 100
AI_PRIORITY_SCORE_MIN    == 0
AI_PRIORITY_SCORE_MAX    == 10
max_retries              == 3

Chats   == {1, 2}                       \* conversation identifiers
Scores  == {1, 2}                       \* priority scores that get stored
Runners == {"job", "cmd"}               \* scheduled_summary_job, handle_summary_command
Labels  == {"high", "medium", "low"}    \* valid_labels
NULL    == "NULL"                       \* SQL NULL / Python None of a string column

VARIABLES
    now,            \* datetime.utcnow(), in hours
    config,         \* get_config(): loaded once, never changed
    messages,       \* table messages: row id -> row
    user_prefs,     \* table user_preferences: the rows of client_user_id (0 or 1)
    muted_chats,    \* userbot._muted_chats
    group_sizes,    \* userbot._group_sizes
    run,            \* the digest runs: one per runner
    sent,           \* record ids whose digest card send_summary delivered
    ing,            \* the inbound event being processed by handle_new_message
    alerts,         \* record id -> alerts bot.send_message delivered for it
    cb,             \* the callback query being processed by the bot
    tg_muted,       \* conversations muted at Telegram (the transport's truth)
    sweep,          \* refresh_muted_chats in progress
    size_sweep,     \* refresh_group_sizes in progress
    app             \* main.SecretaryBot and the components it started

vars == <<now, config, messages, user_prefs, muted_chats, group_sizes, run, sent,
          ing, alerts, cb, tg_muted, sweep, size_sweep, app>>

digestVars == <<run, sent>>
ingestVars == <<ing, alerts>>
fbVars     == <<cb, tg_muted>>

\* ----------------------------------------------------------------- helpers
Min(a, b) == IF a <= b THEN a ELSE b

Range(f) == {f[i] : i \in DOMAIN f}

\* Python None of an Optional[int]; of a text that is modelled by its length
\* or by the number of its words as well
None == -1

\* models.Message: the columns the triage pipeline reads or writes
NewMessage(chat, score, ts) ==
    [chat_id |-> chat, priority_score |-> score, timestamp |-> ts,
     label |-> NULL, labeled_at |-> 0,
     included_in_summary |-> FALSE, summary_sent_at |-> 0,
     warning_sent |-> FALSE,
     has_mention |-> FALSE, is_question |-> FALSE, message_length |-> 0,
     topic_summary |-> None]

\* a filter that also excludes the groups the cache does not know
get_large_group_ids_FailClosed(max_size) ==
    {c \in Chats : c \notin DOMAIN group_sizes \/ group_sizes[c] > max_size}

\* userbot.get_large_group_ids
get_large_group_ids(max_size) ==
    {c \in DOMAIN group_sizes : group_sizes[c] > max_size}

\* ------------------------------------------------------- digest: selection
\* a WHERE clause without the test of the label
Qualifying_AnyLabel(msgs, cutoff, min_priority, excluded) ==
    {i \in DOMAIN msgs :
        /\ msgs[i].timestamp >= cutoff
        /\ msgs[i].included_in_summary = FALSE
        /\ msgs[i].priority_score >= min_priority
        /\ (excluded # {} => msgs[i].chat_id \notin excluded)}

\* the WHERE clause of get_unlabeled_messages
Qualifying(msgs, cutoff, min_priority, excluded) ==
    {i \in DOMAIN msgs :
        /\ msgs[i].timestamp >= cutoff
        /\ msgs[i].label = NULL
        /\ msgs[i].included_in_summary = FALSE
        /\ msgs[i].priority_score >= min_priority
        /\ (excluded # {} => msgs[i].chat_id \notin excluded)}

\* ORDER BY priority_score DESC, timestamp ASC: ties go to the oldest row
OrderedBefore_OldestFirst(msgs, a, b) ==
    \/ msgs[a].priority_score > msgs[b].priority_score
    \/ /\ msgs[a].priority_score = msgs[b].priority_score
       /\ msgs[a].timestamp < msgs[b].timestamp

\* ORDER BY priority_score DESC, timestamp DESC: a strictly precedes b
OrderedBefore(msgs, a, b) ==
    \/ msgs[a].priority_score > msgs[b].priority_score
    \/ /\ msgs[a].priority_score = msgs[b].priority_score
       /\ msgs[a].timestamp > msgs[b].timestamp

\* every order the database may return the rows of S in (rows equal in both
\* sort keys come in an unspecified order)
Orderings(msgs, S) ==
    {o \in [1..Cardinality(S) -> S] :
        /\ \A i, j \in DOMAIN o : i # j => o[i] # o[j]
        /\ \A i, j \in DOMAIN o : i < j => ~OrderedBefore(msgs, o[j], o[i])}

\* the SELECT ... ORDER BY ... LIMIT of get_unlabeled_messages
SelectResults(msgs, cutoff, min_priority, excluded, limit) ==
    {SubSeq(o, 1, Min(limit, Len(o))) :
        o \in Orderings(msgs, Qualifying(msgs, cutoff, min_priority, excluded))}

\* an UPDATE that stamps summary_sent_at and leaves the flag alone
MarkIncluded_StampOnly(msgs, ids, t) ==
    [i \in DOMAIN msgs |->
        IF i \in ids THEN [msgs[i] EXCEPT !.summary_sent_at = t] ELSE msgs[i]]

\* the UPDATE ... WHERE id IN (message_ids) of get_unlabeled_messages, as committed
MarkIncluded(msgs, ids, t) ==
    [i \in DOMAIN msgs |->
        IF i \in ids
        THEN [msgs[i] EXCEPT !.included_in_summary = TRUE, !.summary_sent_at = t]
        ELSE msgs[i]]

\* a count that leaves out the rows that carry a label
TotalInWindow_UnlabeledOnly(msgs, cutoff) ==
    Cardinality({i \in DOMAIN msgs : msgs[i].timestamp >= cutoff /\ msgs[i].label = NULL})

\* get_message_stats: messages in the time range
TotalInWindow(msgs, cutoff) ==
    Cardinality({i \in DOMAIN msgs : msgs[i].timestamp >= cutoff})

\* a runner that is not in generate_and_send_summary
IdleRun ==
    [pc |-> "idle", total |-> 0, cutoff |-> 0, excluded |-> {},
     min_priority |-> 0, result |-> <<>>, qual |-> {}, marked |-> {},
     mark_time |-> 0, outcome |-> "none"]

\* ---------------------------------------------------------- digest: a run
\* generate_and_send_summary up to the await inside get_message_stats
DigestStats(r) ==
    /\ run[r].pc = "idle"
    /\ run' = [run EXCEPT ![r] = [IdleRun EXCEPT
                  !.pc = "stats",
                  !.total = TotalInWindow(messages, now - config.summary_interval_hours)]]
    /\ UNCHANGED <<now, config, messages, user_prefs, muted_chats, group_sizes, sent,
                   ingestVars, fbVars, sweep, size_sweep, app>>

\* total_messages == 0: the quiet notice; otherwise get_unlabeled_messages
\* up to its first await (cutoff_time and the excluded set are computed here)
DigestPlan(r) ==
    /\ run[r].pc = "stats"
    /\ IF run[r].total = 0
       THEN run' = [run EXCEPT ![r] = [IdleRun EXCEPT !.outcome = "quiet"]]
       ELSE run' = [run EXCEPT
                ![r].pc = "prefs",
                ![r].cutoff = now - config.summary_interval_hours,
                ![r].min_priority = config.min_priority_score,
                ![r].excluded =
                    (IF config.ignore_muted_chats THEN muted_chats ELSE {})
                    \cup (IF config.ignore_large_groups
                          THEN get_large_group_ids(config.max_group_size) ELSE {})]
    /\ UNCHANGED <<now, config, messages, user_prefs, muted_chats, group_sizes, sent,
                   ingestVars, fbVars, sweep, size_sweep, app>>

\* the first session of get_unlabeled_messages: the stored min_priority_score
\* (ok = FALSE: the query raised, the default stays)
DigestPrefs(r) ==
    /\ run[r].pc = "prefs"
    /\ \E ok \in BOOLEAN :
        run' = [run EXCEPT
            ![r].pc = "select",
            ![r].min_priority =
                IF ok /\ user_prefs # {}
                THEN (CHOOSE p \in user_prefs : TRUE).min_priority_score
                ELSE run[r].min_priority]
    /\ UNCHANGED <<now, config, messages, user_prefs, muted_chats, group_sizes, sent,
                   ingestVars, fbVars, sweep, size_sweep, app>>

\* a query that leaves out the records an alert was sent for
DigestSelect_Unalerted(r) ==
    /\ run[r].pc = "select"
    /\ LET unalerted == {i \in DOMAIN messages : ~messages[i].warning_sent}
       IN  \E res \in SelectResults(messages, run[r].cutoff, run[r].min_priority,
                                    run[r].excluded \cup
                                        {messages[i].chat_id : i \in DOMAIN messages \ unalerted},
                                    config.max_messages_per_summary) :
            run' = [run EXCEPT
                ![r].pc = IF res = <<>> THEN "commit" ELSE "mark",
                ![r].result = res,
                ![r].qual = Qualifying(messages, run[r].cutoff, run[r].min_priority,
                                       run[r].excluded) \cap unalerted]
    /\ UNCHANGED <<now, config, messages, user_prefs, muted_chats, group_sizes, sent,
                   ingestVars, fbVars, sweep, size_sweep, app>>

\* session.execute(query): reads the committed rows
DigestSelect(r) ==
    /\ run[r].pc = "select"
    /\ \E res \in SelectResults(messages, run[r].cutoff, run[r].min_priority,
                                run[r].excluded, config.max_messages_per_summary) :
        run' = [run EXCEPT
            ![r].pc = IF res = <<>> THEN "commit" ELSE "mark",
            ![r].result = res,
            ![r].qual = Qualifying(messages, run[r].cutoff, run[r].min_priority,
                                   run[r].excluded)]
    /\ UNCHANGED <<now, config, messages, user_prefs, muted_chats, group_sizes, sent,
                   ingestVars, fbVars, sweep, size_sweep, app>>

\* session.execute(sql_update ...): written inside the open transaction
DigestMark(r) ==
    /\ run[r].pc = "mark"
    /\ run' = [run EXCEPT ![r].pc = "commit",
                          ![r].marked = Range(run[r].result),
                          ![r].mark_time = now]
    /\ UNCHANGED <<now, config, messages, user_prefs, muted_chats, group_sizes, sent,
                   ingestVars, fbVars, sweep, size_sweep, app>>

\* database.get_session: session.commit() makes the update durable; then
\* get_unlabeled_messages returns list(messages)
DigestCommit(r) ==
    /\ run[r].pc = "commit"
    /\ messages' = MarkIncluded(messages, run[r].marked, run[r].mark_time)
    /\ run' = [run EXCEPT ![r].pc = "returned"]
    /\ UNCHANGED <<now, config, user_prefs, muted_chats, group_sizes, sent,
                   ingestVars, fbVars, sweep, size_sweep, app>>

\* database.get_session: an exception in the session rolls back and is raised
\* again; generate_and_send_summary reports the error
DigestFail(r) ==
    /\ run[r].pc \in {"select", "mark", "commit"}
    /\ run' = [run EXCEPT ![r] = [IdleRun EXCEPT !.outcome = "error"]]
    /\ UNCHANGED <<now, config, messages, user_prefs, muted_chats, group_sizes, sent,
                   ingestVars, fbVars, sweep, size_sweep, app>>

\* a delivery that hands the cards it could not send back to the selection
DigestDeliver_Requeue(r) ==
    /\ run[r].pc = "returned"
    /\ IF run[r].result = <<>>
       THEN /\ run' = [run EXCEPT ![r] = [IdleRun EXCEPT !.outcome = "nothing"]]
            /\ sent' = sent
            /\ messages' = messages
       ELSE \E k \in 0..Len(run[r].result) :
            /\ sent' = sent \cup {run[r].result[i] : i \in 1..k}
            /\ messages' = [i \in DOMAIN messages |->
                    IF \E j \in (k + 1)..Len(run[r].result) : run[r].result[j] = i
                    THEN [messages[i] EXCEPT !.included_in_summary = FALSE]
                    ELSE messages[i]]
            /\ run' = [run EXCEPT ![r] = [IdleRun EXCEPT
                          !.outcome = IF k = Len(run[r].result)
                                      THEN "summary" ELSE "error"]]
    /\ UNCHANGED <<now, config, user_prefs, muted_chats, group_sizes,
                   ingestVars, fbVars, sweep, size_sweep, app>>

\* not messages: the nothing-needs-attention notice; otherwise send_summary,
\* which sends the cards one by one and may raise after the first k
DigestDeliver(r) ==
    /\ run[r].pc = "returned"
    /\ IF run[r].result = <<>>
       THEN /\ run' = [run EXCEPT ![r] = [IdleRun EXCEPT !.outcome = "nothing"]]
            /\ sent' = sent
       ELSE \E k \in 0..Len(run[r].result) :
            /\ sent' = sent \cup {run[r].result[i] : i \in 1..k}
            /\ run' = [run EXCEPT ![r] = [IdleRun EXCEPT
                          !.outcome = IF k = Len(run[r].result)
                                      THEN "summary" ELSE "error"]]
    /\ UNCHANGED <<now, config, messages, user_prefs, muted_chats, group_sizes,
                   ingestVars, fbVars, sweep, size_sweep, app>>

\* ----------------------------------------------------------- other writers
\* save_message: session.add(message); flush; commit
PersistMessage(chat, score) ==
    /\ Len(messages) < MaxMsgs
    /\ messages' = Append(messages, NewMessage(chat, score, now))
    /\ UNCHANGED <<now, config, user_prefs, muted_chats, group_sizes, digestVars,
                   ingestVars, fbVars, sweep, size_sweep, app>>

\* time passes
Tick ==
    /\ now < MaxTime
    /\ now' = now + 1
    /\ UNCHANGED <<config, messages, user_prefs, muted_chats, group_sizes, digestVars,
                   ingestVars, fbVars, sweep, size_sweep, app>>

\* --------------------------------------------------------------- scoring
\* a score that gives the length point from MIN_LONG_MESSAGE_LENGTH on
calculate_priority_score_AtLeast(length, has_mention, is_question, is_high_priority_user) ==
    (IF has_mention THEN SCORE_MENTION ELSE 0)
    + (IF is_question THEN SCORE_QUESTION ELSE 0)
    + (IF length >= MIN_LONG_MESSAGE_LENGTH THEN SCORE_LONG_MESSAGE ELSE 0)
    + (IF is_high_priority_user THEN SCORE_HIGH_PRIORITY_USER ELSE 0)

\* utils.calculate_priority_score; length is len(message_text), below zero
\* (None) when message_text is None, so that an absent and an empty text
\* both fail "message_text and len(message_text) > MIN_LONG_MESSAGE_LENGTH"
calculate_priority_score(length, has_mention, is_question, is_high_priority_user) ==
    (IF has_mention THEN SCORE_MENTION ELSE 0)
    + (IF is_question THEN SCORE_QUESTION ELSE 0)
    + (IF length > MIN_LONG_MESSAGE_LENGTH THEN SCORE_LONG_MESSAGE ELSE 0)
    + (IF is_high_priority_user THEN SCORE_HIGH_PRIORITY_USER ELSE 0)

\* the call raised instead of returning
Raised == -3

\* the oracle's reply as its runs of characters: a run of digits is its
\* value, any other text is NoDigits
NoDigits == -2

IsNumber(x) == x >= 0

\* a parse that answers the lowest score when the reply holds no number
ParseScore_ZeroDefault(reply) ==
    LET numbers == SelectSeq(reply, IsNumber)
    IN  IF numbers # <<>>
        THEN IF numbers[1] > AI_PRIORITY_SCORE_MAX THEN AI_PRIORITY_SCORE_MAX
             ELSE numbers[1]
        ELSE AI_PRIORITY_SCORE_MIN

\* utils.calculate_ai_priority_score, "Parse the score": the first number of
\* re.findall(r'\d+', result) clamped to the valid range, None if there is none
ParseScore(reply) ==
    LET numbers == SelectSeq(reply, IsNumber)
    IN  IF numbers # <<>>
        THEN IF numbers[1] > AI_PRIORITY_SCORE_MAX THEN AI_PRIORITY_SCORE_MAX
             ELSE IF numbers[1] < AI_PRIORITY_SCORE_MIN THEN AI_PRIORITY_SCORE_MIN
             ELSE numbers[1]
        ELSE None

\* what a call of the scoring oracle can end in
OracleOutcomes ==
    {[kind |-> "timeout", reply |-> <<>>], [kind |-> "error", reply |-> <<>>]}
    \cup {[kind |-> "reply", reply |-> r] :
            r \in {<<NoDigits>>, <<7>>, <<NoDigits, 3>>, <<12>>}}

\* a score taken from the reply as it stands, without the clamp
calculate_ai_priority_score_Unclamped(o) ==
    IF o.kind = "reply"
    THEN LET numbers == SelectSeq(o.reply, IsNumber)
         IN  IF numbers # <<>> THEN numbers[1] ELSE None
    ELSE None

\* utils.calculate_ai_priority_score from the oracle call on (the text of a
\* persisted message is never empty)
calculate_ai_priority_score(o) ==
    IF o.kind = "reply" THEN ParseScore(o.reply) ELSE None

\* ------------------------------------------------------------ idle states
\* utils.get_chat_type: chat 1 is a private chat, the others are groups
get_chat_type(c) == IF c = 1 THEN "private" ELSE "group"

NoOracle == [kind |-> "none", reply |-> <<>>]

IdleIng ==
    [pc |-> "idle", chat |-> 0, length |-> 0, has_mention |-> FALSE,
     is_question |-> FALSE, is_high_priority |-> FALSE, time |-> 0,
     oracle |-> NoOracle, score |-> None, id |-> 0, threshold |-> None,
     attempt |-> 0, outcome |-> "none", topic |-> None, topic_call |-> "none"]

\* the text of a card as sent, before any handler edited it
Card == <<"card">>

\* no completed label action
NoAction == [id |-> 0, label |-> NULL, row |-> NewMessage(0, 0, 0), reply |-> "none"]

\* the bot between two callback queries; card is the text of the card the
\* buttons belong to, queue the presses the front-end has not yet handed over
IdleCb ==
    [pc |-> "idle", kind |-> "none", id |-> 0, label |-> NULL, chat |-> 0,
     attempt |-> 0, stamp |-> 0, snap |-> <<>>, reply |-> "none",
     card |-> Card, queue |-> <<>>, last |-> NoAction, prev |-> NoAction,
     new_value |-> FALSE]

IdleSweep == [pc |-> "idle", todo |-> {}, acc |-> {}]

\* the application after startup() with every component up: the module
\* globals _scheduler, _userbot_client, _bot_app and _engine are set; timers,
\* stream, front_end and pool say whether the component behind each global
\* still works; order lists the stop steps entered, failed those that raised
RunningApp ==
    [pc |-> "running", scheduler |-> TRUE, userbot_client |-> TRUE,
     bot_app |-> TRUE, engine |-> TRUE, timers |-> TRUE, stream |-> TRUE,
     front_end |-> TRUE, pool |-> "open", order |-> <<>>, failed |-> {}]

\* no refresh_group_sizes is running; log is what the last one logged when
\* it ended and flood whether a FloodWaitError ended it
IdleSizeSweep == [pc |-> "idle", todo |-> {}, acc |-> <<>>, log |-> "none", flood |-> FALSE]

\* ---------------------------------------------------------------- ingestion
\* the user_preferences row of the client, if the query returned one
LoadedPrefs(ok) == IF ok THEN user_prefs ELSE {}

\* handle_new_message, "Apply group chat filters": the event is dropped
OversizedAtIngestion(chat, prefs) ==
    LET ignore_large_groups ==
            IF prefs # {} THEN (CHOOSE p \in prefs : TRUE).ignore_large_groups
            ELSE config.ignore_large_groups
        max_group_size ==
            IF prefs # {} THEN (CHOOSE p \in prefs : TRUE).max_group_size
            ELSE config.max_group_size
    IN  /\ get_chat_type(chat) = "group"
        /\ ignore_large_groups
        /\ chat \in DOMAIN group_sizes
        /\ group_sizes[chat] >= max_group_size

\* a mute check that looks groups up and lets every private chat pass
MutedAtIngestion_GroupsOnly(chat, prefs) ==
    LET ignore_muted_chats ==
            IF prefs # {} THEN (CHOOSE p \in prefs : TRUE).ignore_muted_chats
            ELSE config.ignore_muted_chats
    IN  ignore_muted_chats /\ get_chat_type(chat) = "group" /\ chat \in muted_chats

\* handle_new_message, "Check if we should ignore muted chats": the event is
\* dropped. chat is check_id: in a private chat the sender's id (the id the
\* record's chat_id gets as well), in a group or channel the chat's id
MutedAtIngestion(chat, prefs) ==
    LET ignore_muted_chats ==
            IF prefs # {} THEN (CHOOSE p \in prefs : TRUE).ignore_muted_chats
            ELSE config.ignore_muted_chats
    IN  ignore_muted_chats /\ chat \in muted_chats

\* the sender of an inbound event: in a private chat the user the chat is
\* with, in a group one of its members (user 1)
sender_id(chat) == IF get_chat_type(chat) = "private" THEN chat ELSE 1

\* handle_new_message, the mute filter's key: the sender's id in a private
\* chat, the chat's id otherwise
check_id(chat) ==
    IF get_chat_type(chat) = "private" THEN sender_id(chat) ELSE chat

\* a record key that is the sender's id in every kind of chat
actual_chat_id_UserId(chat) == sender_id(chat)

\* handle_new_message, "Determine correct chat_id for muting": the chat_id
\* the record is saved with
actual_chat_id(chat) ==
    LET user_id == sender_id(chat)
    IN  IF get_chat_type(chat) = "private" THEN user_id ELSE chat

\* handle_new_message up to the query for the preferences: events of the
\* client itself, of the bot, and events without text are dropped
IngestReceive(chat, sender, length, has_mention, is_question, is_high_priority) ==
    /\ ing.pc = "idle"
    /\ Len(messages) < MaxMsgs
    /\ IF sender # "other" \/ length = 0
       THEN ing' = [IdleIng EXCEPT !.outcome = "dropped_early"]
       ELSE ing' = [IdleIng EXCEPT
                !.pc = "prefs", !.chat = chat, !.length = length,
                !.has_mention = has_mention, !.is_question = is_question,
                !.is_high_priority = is_high_priority, !.time = now]
    /\ UNCHANGED <<now, config, messages, user_prefs, muted_chats, group_sizes,
                   digestVars, alerts, fbVars, sweep, size_sweep, app>>

\* handle_new_message from the loaded preferences through both filters, and
\* save_message up to its first await (ok = FALSE: the query raised)
IngestFilter ==
    /\ ing.pc = "prefs"
    /\ \E ok \in BOOLEAN :
        LET prefs == LoadedPrefs(ok)
        IN  IF OversizedAtIngestion(ing.chat, prefs)
            THEN ing' = [IdleIng EXCEPT !.chat = ing.chat, !.outcome = "dropped_oversized"]
            ELSE IF MutedAtIngestion(check_id(ing.chat), prefs)
            THEN ing' = [IdleIng EXCEPT !.chat = ing.chat, !.outcome = "dropped_muted"]
            ELSE IF config.ai_enabled
            THEN ing' = [ing EXCEPT !.pc = "oracle"]
            ELSE ing' = [ing EXCEPT
                    !.pc = "topic",
                    !.score = calculate_priority_score(ing.length, ing.has_mention,
                                  ing.is_question, ing.is_high_priority)]
    /\ UNCHANGED <<now, config, messages, user_prefs, muted_chats, group_sizes,
                   digestVars, alerts, fbVars, sweep, size_sweep, app>>

\* save_message: the oracle call ends; None falls back to the rule-based
\* score, an exception would go to the outer except of save_message
IngestOracle ==
    /\ ing.pc = "oracle"
    /\ \E o \in OracleOutcomes :
        LET priority_score == calculate_ai_priority_score(o)
        IN  IF priority_score = Raised
            THEN ing' = [ing EXCEPT !.pc = "idle", !.oracle = o,
                                    !.outcome = "score_error"]
            ELSE ing' = [ing EXCEPT
                !.pc = "topic",
                !.oracle = o,
                !.score = IF priority_score # None THEN priority_score
                          ELSE calculate_priority_score(ing.length, ing.has_mention,
                                   ing.is_question, ing.is_high_priority)]
    /\ UNCHANGED <<now, config, messages, user_prefs, muted_chats, group_sizes,
                   digestVars, alerts, fbVars, sweep, size_sweep, app>>

\* what the call of the topic oracle can end in: the wait times out, the
\* client raises, or it replies with a text of so many words
TopicOutcomes ==
    {[kind |-> "timeout", words |-> 0], [kind |-> "error", words |-> 0]}
    \cup {[kind |-> "reply", words |-> n] : n \in {0, 3, 6}}

\* the topic oracle is not running
TopicDown == [kind |-> "error", words |-> 0]

\* utils.generate_topic_summary: None for a text too short to summarise and
\* when the call times out or raises, else the first words of the reply
\* (the topic is modelled by the number of its words)
generate_topic_summary(length, o) ==
    IF length < MIN_TEXT_LENGTH_FOR_TOPIC THEN None
    ELSE IF o.kind = "reply" THEN Min(o.words, AI_TOPIC_SUMMARY_MAX_WORDS)
    ELSE None

\* a save_message that gives the event up when the topic call fails
IngestTopic_Raises(o) ==
    /\ ing.pc = "topic"
    /\ IF ing.length >= MIN_TEXT_LENGTH_FOR_TOPIC /\ o.kind # "reply"
       THEN ing' = [ing EXCEPT !.pc = "idle", !.outcome = "error",
                               !.topic_call = o.kind]
       ELSE ing' = [ing EXCEPT
                !.pc = "persist",
                !.topic = generate_topic_summary(ing.length, o),
                !.topic_call = IF ing.length < MIN_TEXT_LENGTH_FOR_TOPIC
                               THEN "none" ELSE o.kind]
    /\ UNCHANGED <<now, config, messages, user_prefs, muted_chats, group_sizes,
                   digestVars, alerts, fbVars, sweep, size_sweep, app>>

\* save_message: generate_topic_summary returns a topic or None, it never
\* raises (topic_call: how the call of the topic oracle ended, if made)
IngestTopic(o) ==
    /\ ing.pc = "topic"
    /\ ing' = [ing EXCEPT
            !.pc = "persist",
            !.topic = generate_topic_summary(ing.length, o),
            !.topic_call = IF ing.length < MIN_TEXT_LENGTH_FOR_TOPIC
                           THEN "none" ELSE o.kind]
    /\ UNCHANGED <<now, config, messages, user_prefs, muted_chats, group_sizes,
                   digestVars, alerts, fbVars, sweep, size_sweep, app>>

\* save_message, "Create message record": the row of the event in ing
EventRow ==
    [NewMessage(actual_chat_id(ing.chat), ing.score, ing.time) EXCEPT
        !.has_mention = ing.has_mention, !.is_question = ing.is_question,
        !.message_length = ing.length, !.topic_summary = ing.topic]

\* a save_message that hands the new identifier on before the row is written
IngestPersist_IdFirst ==
    /\ ing.pc = "persist"
    /\ messages' = messages
    /\ ing' = [ing EXCEPT !.pc = "threshold", !.id = Len(messages) + 1]
    /\ UNCHANGED <<now, config, user_prefs, muted_chats, group_sizes,
                   digestVars, alerts, fbVars, sweep, size_sweep, app>>

\* save_message: session.add(message); flush; commit
IngestPersist ==
    /\ ing.pc = "persist"
    /\ messages' = Append(messages, EventRow)
    /\ ing' = [ing EXCEPT !.pc = "threshold", !.id = Len(messages) + 1]
    /\ UNCHANGED <<now, config, user_prefs, muted_chats, group_sizes,
                   digestVars, alerts, fbVars, sweep, size_sweep, app>>

\* a failure of the session that leaves the record behind
IngestPersistFail_HalfWritten ==
    /\ ing.pc = "persist"
    /\ messages' = Append(messages, EventRow)
    /\ ing' = [ing EXCEPT !.pc = "idle", !.outcome = "error"]
    /\ UNCHANGED <<now, config, user_prefs, muted_chats, group_sizes,
                   digestVars, alerts, fbVars, sweep, size_sweep, app>>

\* save_message: the session raised; the outer except logs and returns
IngestPersistFail ==
    /\ ing.pc = "persist"
    /\ ing' = [ing EXCEPT !.pc = "idle", !.outcome = "error"]
    /\ UNCHANGED <<now, config, messages, user_prefs, muted_chats, group_sizes,
                   digestVars, alerts, fbVars, sweep, size_sweep, app>>

\* a comparison that asks for a score above the threshold
IngestThreshold_Above ==
    /\ ing.pc = "threshold"
    /\ \E ok \in BOOLEAN :
        LET prefs == LoadedPrefs(ok)
            warning_threshold ==
                IF prefs # {} THEN (CHOOSE p \in prefs : TRUE).warning_threshold_score
                ELSE config.warning_threshold_score
        IN  ing' = [ing EXCEPT
                !.threshold = warning_threshold,
                !.pc = IF ing.score > warning_threshold THEN "alert" ELSE "idle",
                !.outcome = IF ing.score > warning_threshold THEN "none" ELSE "saved"]
    /\ UNCHANGED <<now, config, messages, user_prefs, muted_chats, group_sizes,
                   digestVars, alerts, fbVars, sweep, size_sweep, app>>

\* save_message: the stored warning threshold, else the configured one
\* (ok = FALSE: the query raised); below it the event is done, at or above it
\* send_warning_for_message runs up to bot.send_message
IngestThreshold ==
    /\ ing.pc = "threshold"
    /\ \E ok \in BOOLEAN :
        LET prefs == LoadedPrefs(ok)
            warning_threshold ==
                IF prefs # {} THEN (CHOOSE p \in prefs : TRUE).warning_threshold_score
                ELSE config.warning_threshold_score
        IN  ing' = [ing EXCEPT
                !.threshold = warning_threshold,
                !.pc = IF ing.score >= warning_threshold THEN "alert" ELSE "idle",
                !.outcome = IF ing.score >= warning_threshold THEN "none" ELSE "saved"]
    /\ UNCHANGED <<now, config, messages, user_prefs, muted_chats, group_sizes,
                   digestVars, alerts, fbVars, sweep, size_sweep, app>>

\* how the send of an alert can end: get_bot_app() returns None (the bot is
\* not up yet, or no longer), bot.send_message raises, or the alert goes out
SendOutcomes == {"no_bot", "raised", "sent"}

\* a dispatcher that goes on to mark the record when the send has raised
AlertSend_MarkAnyway ==
    /\ ing.pc = "alert"
    /\ \E how \in SendOutcomes :
        IF how = "sent"
        THEN /\ alerts' = Append(alerts, ing.id)
             /\ ing' = [ing EXCEPT !.pc = "mark", !.attempt = 0]
        ELSE IF how = "raised"
        THEN /\ alerts' = alerts
             /\ ing' = [ing EXCEPT !.pc = "mark", !.attempt = 0]
        ELSE /\ alerts' = alerts
             /\ ing' = [ing EXCEPT !.pc = "idle", !.outcome = "alert_skipped"]
    /\ UNCHANGED <<now, config, messages, user_prefs, muted_chats, group_sizes,
                   digestVars, fbVars, sweep, size_sweep, app>>

\* send_warning_for_message: without a bot application the alert is skipped;
\* otherwise bot.send_message delivers the alert, or raises and the except
\* clause logs it
AlertSend ==
    /\ ing.pc = "alert"
    /\ \E how \in SendOutcomes :
        IF how = "sent"
        THEN /\ alerts' = Append(alerts, ing.id)
             /\ ing' = [ing EXCEPT !.pc = "mark", !.attempt = 0]
        ELSE IF how = "raised"
        THEN /\ alerts' = alerts
             /\ ing' = [ing EXCEPT !.pc = "idle", !.outcome = "alert_failed"]
        ELSE /\ alerts' = alerts
             /\ ing' = [ing EXCEPT !.pc = "idle", !.outcome = "alert_skipped"]
    /\ UNCHANGED <<now, config, messages, user_prefs, muted_chats, group_sizes,
                   digestVars, fbVars, sweep, size_sweep, app>>

\* an UPDATE that also resets the label of the record
AlertMark_ClearLabel ==
    /\ ing.pc = "mark"
    /\ messages' = [messages EXCEPT ![ing.id].warning_sent = TRUE,
                                    ![ing.id].label = NULL]
    /\ ing' = [ing EXCEPT !.pc = "idle", !.outcome = "alerted"]
    /\ UNCHANGED <<now, config, user_prefs, muted_chats, group_sizes,
                   digestVars, alerts, fbVars, sweep, size_sweep, app>>

\* send_warning_for_message: the UPDATE of warning_sent commits
AlertMark ==
    /\ ing.pc = "mark"
    /\ messages' = [messages EXCEPT ![ing.id].warning_sent = TRUE]
    /\ ing' = [ing EXCEPT !.pc = "idle", !.outcome = "alerted"]
    /\ UNCHANGED <<now, config, user_prefs, muted_chats, group_sizes,
                   digestVars, alerts, fbVars, sweep, size_sweep, app>>

\* a retry that starts over from bot.send_message
AlertMarkLocked_Resend ==
    /\ ing.pc = "mark"
    /\ IF ing.attempt < max_retries - 1
       THEN ing' = [ing EXCEPT !.pc = "alert", !.attempt = ing.attempt + 1]
       ELSE ing' = [ing EXCEPT !.pc = "idle", !.outcome = "alert_unmarked"]
    /\ UNCHANGED <<now, config, messages, user_prefs, muted_chats, group_sizes,
                   digestVars, alerts, fbVars, sweep, size_sweep, app>>

\* send_warning_for_message: OperationalError; retried until the last attempt
AlertMarkLocked ==
    /\ ing.pc = "mark"
    /\ IF ing.attempt < max_retries - 1
       THEN ing' = [ing EXCEPT !.attempt = ing.attempt + 1]
       ELSE ing' = [ing EXCEPT !.pc = "idle", !.outcome = "alert_unmarked"]
    /\ UNCHANGED <<now, config, messages, user_prefs, muted_chats, group_sizes,
                   digestVars, alerts, fbVars, sweep, size_sweep, app>>

\* alerts delivered for a record
AlertCount(id) == Cardinality({i \in DOMAIN alerts : alerts[i] = id})

\* ----------------------------------------------------------------- feedback
\* the handler ends: the reply it gave and the card as it left it
CbDone(reply, card) ==
    [cb EXCEPT !.pc = "idle", !.reply = reply, !.card = card]

\* duration_map of handle_mute_callback: the actions it knows
Durations == {"mute_1h", "mute_8h", "mute_1d", "mute_1w", "mute_forever"}

\* a callback query arrives with query.data = action:id:label or
\* action:id:chat; kind is the handler its prefix selects, parts the number of
\* fields split(":") gives, and a field that int() refuses is NoDigits. The
\* text of the card at that time travels with it as query.message.text
PressData(kind, action, parts, id, label, chat) ==
    /\ Len(cb.queue) < MaxTaps
    /\ cb' = [cb EXCEPT !.queue = Append(@,
                [kind |-> kind, action |-> action, parts |-> parts, id |-> id,
                 label |-> label, chat |-> chat, snap |-> cb.card])]
    /\ UNCHANGED <<now, config, messages, user_prefs, muted_chats, group_sizes,
                   digestVars, ingestVars, tg_muted, sweep, size_sweep, app>>

\* the user presses a button of the card: the keyboards build payloads of
\* three fields, and the mute keyboard one of the known durations
Press(kind, id, label, chat) ==
    PressData(kind, IF kind = "mute" THEN "mute_forever" ELSE kind, 3, id, label, chat)

\* a priority button: shown on the card as sent
LabelPress(id, label) ==
    /\ cb.card = Card
    /\ Press("label", id, label, 0)

\* handle_label_callback up to the retry loop: the payload is validated
LabelStart ==
    /\ cb.pc = "idle"
    /\ cb.queue # <<>>
    /\ Head(cb.queue).kind = "label"
    /\ LET q == Head(cb.queue)
           c == [cb EXCEPT !.queue = Tail(@), !.kind = "label", !.id = q.id,
                           !.label = q.label, !.chat = 0, !.snap = q.snap,
                           !.attempt = 0, !.stamp = 0, !.reply = "none"]
       IN  IF q.parts # 3
           THEN cb' = [c EXCEPT !.reply = "invalid_format", !.card = <<"invalid_format">>]
           ELSE IF q.id = NoDigits
           THEN cb' = [c EXCEPT !.reply = "not_a_number", !.card = <<"not_a_number">>]
           ELSE IF q.id <= 0
           THEN cb' = [c EXCEPT !.reply = "invalid_id", !.card = <<"invalid_id">>]
           ELSE IF q.label \notin Labels
           THEN cb' = [c EXCEPT !.reply = "invalid_label", !.card = <<"invalid_label">>]
           ELSE cb' = [c EXCEPT !.pc = "label_select"]
    /\ UNCHANGED <<now, config, messages, user_prefs, muted_chats, group_sizes,
                   digestVars, ingestVars, tg_muted, sweep, size_sweep, app>>

\* the SELECT of the record; the UPDATE is built with datetime.utcnow()
LabelSelect ==
    /\ cb.pc = "label_select"
    /\ IF cb.id \notin DOMAIN messages
       THEN cb' = CbDone("not_found", <<"not_found">>)
       ELSE cb' = [cb EXCEPT !.pc = "label_update", !.stamp = now]
    /\ UNCHANGED <<now, config, messages, user_prefs, muted_chats, group_sizes,
                   digestVars, ingestVars, tg_muted, sweep, size_sweep, app>>

\* an UPDATE that also puts the record back in line for the next digest
LabelUpdate_Requeue ==
    /\ cb.pc = "label_update"
    /\ messages' = [messages EXCEPT ![cb.id].label = cb.label,
                                    ![cb.id].labeled_at = cb.stamp,
                                    ![cb.id].included_in_summary = FALSE]
    /\ cb' = [cb EXCEPT !.pc = "label_confirm"]
    /\ UNCHANGED <<now, config, user_prefs, muted_chats, group_sizes,
                   digestVars, ingestVars, tg_muted, sweep, size_sweep, app>>

\* the UPDATE of label and labeled_at is executed and the session commits
LabelUpdate ==
    /\ cb.pc = "label_update"
    /\ messages' = [messages EXCEPT ![cb.id].label = cb.label,
                                    ![cb.id].labeled_at = cb.stamp]
    /\ cb' = [cb EXCEPT !.pc = "label_confirm"]
    /\ UNCHANGED <<now, config, user_prefs, muted_chats, group_sizes,
                   digestVars, ingestVars, tg_muted, sweep, size_sweep, app>>

\* a loop that goes round once more than max_retries allows
LabelLocked_OneMore ==
    /\ cb.pc \in {"label_select", "label_update"}
    /\ IF cb.attempt < max_retries
       THEN cb' = [cb EXCEPT !.pc = "label_select", !.attempt = cb.attempt + 1]
       ELSE cb' = CbDone("db_error", <<"db_error">>)
    /\ UNCHANGED <<now, config, messages, user_prefs, muted_chats, group_sizes,
                   digestVars, ingestVars, tg_muted, sweep, size_sweep, app>>

\* OperationalError in the session: retried until the last attempt, then
\* reported as a database error
LabelLocked ==
    /\ cb.pc \in {"label_select", "label_update"}
    /\ IF cb.attempt < max_retries - 1
       THEN cb' = [cb EXCEPT !.pc = "label_select", !.attempt = cb.attempt + 1]
       ELSE cb' = CbDone("db_error", <<"db_error">>)
    /\ UNCHANGED <<now, config, messages, user_prefs, muted_chats, group_sizes,
                   digestVars, ingestVars, tg_muted, sweep, size_sweep, app>>

\* query.edit_message_text(query.message.text + confirmation): an edit that
\* changes nothing is refused by Telegram ("Message is not modified"), and the
\* outer except replaces the card by the error text
LabelConfirm ==
    /\ cb.pc = "label_confirm"
    /\ LET text  == Append(cb.snap, cb.label)
           reply == IF text = cb.card THEN "error" ELSE "confirmed"
           card  == IF text = cb.card THEN <<"error">> ELSE text
       IN  cb' = [CbDone(reply, card) EXCEPT
                    !.prev = cb.last,
                    !.last = [id |-> cb.id, label |-> cb.label,
                              row |-> messages[cb.id], reply |-> reply]]
    /\ UNCHANGED <<now, config, messages, user_prefs, muted_chats, group_sizes,
                   digestVars, ingestVars, tg_muted, sweep, size_sweep, app>>

\* a card that shows the mute confirmation and the "Unmute Now" button
MutedCard == <<"card", "muted">>

\* a card that shows the unmute confirmation
UnmutedCard == <<"card", "unmuted">>

\* a mute_{duration} button: shown once the card as sent was asked to mute
MutePress(id, chat) ==
    /\ cb.card = Card
    /\ Press("mute", id, NULL, chat)

\* the "Unmute Now" button of the mute confirmation
UnmutePress(id, chat) ==
    /\ cb.card = MutedCard
    /\ Press("unmute", id, NULL, chat)

\* a handler that takes any action name for a duration
MuteStart_AnyDuration ==
    /\ cb.pc = "idle"
    /\ cb.queue # <<>>
    /\ Head(cb.queue).kind \in {"mute", "unmute"}
    /\ LET q == Head(cb.queue)
           c == [cb EXCEPT !.queue = Tail(@), !.kind = q.kind, !.id = q.id,
                           !.label = NULL, !.chat = q.chat, !.snap = q.snap,
                           !.attempt = 0, !.stamp = 0, !.reply = "none"]
       IN  IF q.parts # 3
           THEN cb' = [c EXCEPT !.reply = "invalid_format", !.card = <<"invalid_format">>]
           ELSE IF q.id = NoDigits \/ q.chat = NoDigits
           THEN cb' = [c EXCEPT !.reply = "error", !.card = <<"error">>]
           ELSE cb' = [c EXCEPT !.pc = "lookup"]
    /\ UNCHANGED <<now, config, messages, user_prefs, muted_chats, group_sizes,
                   digestVars, ingestVars, tg_muted, sweep, size_sweep, app>>

\* handle_mute_callback / handle_unmute_callback up to the record lookup: the
\* payload is split, int() of a field that is no number raises into the outer
\* except, and a mute action outside duration_map is refused
MuteStart ==
    /\ cb.pc = "idle"
    /\ cb.queue # <<>>
    /\ Head(cb.queue).kind \in {"mute", "unmute"}
    /\ LET q == Head(cb.queue)
           c == [cb EXCEPT !.queue = Tail(@), !.kind = q.kind, !.id = q.id,
                           !.label = NULL, !.chat = q.chat, !.snap = q.snap,
                           !.attempt = 0, !.stamp = 0, !.reply = "none"]
       IN  IF q.parts # 3
           THEN cb' = [c EXCEPT !.reply = "invalid_format", !.card = <<"invalid_format">>]
           ELSE IF q.id = NoDigits \/ q.chat = NoDigits
           THEN cb' = [c EXCEPT !.reply = "error", !.card = <<"error">>]
           ELSE IF q.kind = "mute" /\ q.action \notin Durations
           THEN cb' = [c EXCEPT !.reply = "unknown_duration",
                                !.card = <<"unknown_duration">>]
           ELSE cb' = [c EXCEPT !.pc = "lookup"]
    /\ UNCHANGED <<now, config, messages, user_prefs, muted_chats, group_sizes,
                   digestVars, ingestVars, tg_muted, sweep, size_sweep, app>>

\* the SELECT of the record the card is about
MuteLookup ==
    /\ cb.pc = "lookup"
    /\ IF cb.id \notin DOMAIN messages
       THEN cb' = CbDone("not_found", <<"not_found">>)
       ELSE cb' = [cb EXCEPT !.pc = "entity"]
    /\ UNCHANGED <<now, config, messages, user_prefs, muted_chats, group_sizes,
                   digestVars, ingestVars, tg_muted, sweep, size_sweep, app>>

\* get_userbot_client and client.get_input_entity(chat_id); a raise goes to
\* the inner except, which reports that the chat could not be (un)muted
MuteEntity ==
    /\ cb.pc = "entity"
    /\ \E ok \in BOOLEAN :
        IF ok THEN cb' = [cb EXCEPT !.pc = "request"]
        ELSE cb' = CbDone("transport_error", <<"transport_error">>)
    /\ UNCHANGED <<now, config, messages, user_prefs, muted_chats, group_sizes,
                   digestVars, ingestVars, tg_muted, sweep, size_sweep, app>>

\* a cache update that forgets the chat
add_muted_chat_Dropped(cache, chat_id) == cache

\* userbot.add_muted_chat
add_muted_chat(cache, chat_id) == cache \cup {chat_id}

\* a removal that puts the chat into the cache when it is not there
remove_muted_chat_Toggle(cache, chat_id) ==
    IF chat_id \in cache THEN cache \ {chat_id} ELSE cache \cup {chat_id}

\* userbot.remove_muted_chat: set.discard
remove_muted_chat(cache, chat_id) == cache \ {chat_id}

\* a request step that updates the cache before the transport has answered
MuteRequest_UpdateFirst ==
    /\ cb.pc = "request"
    /\ muted_chats' = IF cb.kind = "mute" THEN add_muted_chat(muted_chats, cb.chat)
                      ELSE remove_muted_chat(muted_chats, cb.chat)
    /\ \E ok \in BOOLEAN :
        IF ok
        THEN /\ tg_muted' = IF cb.kind = "mute" THEN tg_muted \cup {cb.chat}
                            ELSE tg_muted \ {cb.chat}
             /\ cb' = [cb EXCEPT !.pc = "confirm"]
        ELSE /\ tg_muted' = tg_muted
             /\ cb' = CbDone("transport_error", <<"transport_error">>)
    /\ UNCHANGED <<now, config, messages, user_prefs, group_sizes,
                   digestVars, ingestVars, sweep, size_sweep, app>>

\* client(UpdateNotifySettingsRequest(...)) returns, and the cache is updated
\* optimistically before the next await; a raise goes to the inner except
MuteRequest ==
    /\ cb.pc = "request"
    /\ \E ok \in BOOLEAN :
        IF ok
        THEN /\ tg_muted' = IF cb.kind = "mute" THEN tg_muted \cup {cb.chat}
                            ELSE tg_muted \ {cb.chat}
             /\ muted_chats' = IF cb.kind = "mute"
                               THEN add_muted_chat(muted_chats, cb.chat)
                               ELSE remove_muted_chat(muted_chats, cb.chat)
             /\ cb' = [cb EXCEPT !.pc = "confirm"]
        ELSE /\ tg_muted' = tg_muted
             /\ muted_chats' = muted_chats
             /\ cb' = CbDone("transport_error", <<"transport_error">>)
    /\ UNCHANGED <<now, config, messages, user_prefs, group_sizes,
                   digestVars, ingestVars, sweep, size_sweep, app>>

\* query.edit_message_text(confirmation_text): "Message is not modified" is
\* ignored, so the card shows the confirmation either way
MuteConfirm ==
    /\ cb.pc = "confirm"
    /\ cb' = CbDone("confirmed", IF cb.kind = "mute" THEN MutedCard ELSE UnmutedCard)
    /\ UNCHANGED <<now, config, messages, user_prefs, muted_chats, group_sizes,
                   digestVars, ingestVars, tg_muted, sweep, size_sweep, app>>

\* ------------------------------------------------------- settings (/config)
\* get_or_create_user_preferences: the row a first access creates
DefaultPrefs ==
    [min_priority_score |-> config.min_priority_score,
     warning_threshold_score |-> config.warning_threshold_score,
     ignore_large_groups |-> config.ignore_large_groups,
     max_group_size |-> config.max_group_size,
     ignore_muted_chats |-> config.ignore_muted_chats]

\* the toggle actions of the settings page and the column each one writes
ToggleActions == {"toggle_large_groups", "toggle_muted"}

\* handle_config_callback up to the UPDATE: get_or_create_user_preferences
\* returns the row (creating it first if there is none) and new_value is the
\* negation of the stored toggle
ConfigStart(action) ==
    /\ cb.pc = "idle"
    /\ cb.queue = <<>>
    /\ action \in ToggleActions
    /\ LET prefs == IF user_prefs # {} THEN CHOOSE p \in user_prefs : TRUE
                    ELSE DefaultPrefs
       IN  /\ user_prefs' = {prefs}
           /\ cb' = [cb EXCEPT
                    !.pc = "config_update", !.kind = action, !.id = 0,
                    !.label = NULL, !.chat = 0, !.attempt = 0, !.stamp = 0,
                    !.reply = "none",
                    !.new_value = IF action = "toggle_large_groups"
                                  THEN ~prefs.ignore_large_groups
                                  ELSE ~prefs.ignore_muted_chats]
    /\ UNCHANGED <<now, config, messages, muted_chats, group_sizes,
                   digestVars, ingestVars, tg_muted, sweep, size_sweep, app>>

\* sql_update(UserPreferences).values(...=new_value) is executed and commits
ConfigUpdate ==
    /\ cb.pc = "config_update"
    /\ user_prefs' =
           {IF cb.kind = "toggle_large_groups"
            THEN [p EXCEPT !.ignore_large_groups = cb.new_value]
            ELSE [p EXCEPT !.ignore_muted_chats = cb.new_value] : p \in user_prefs}
    /\ cb' = [cb EXCEPT !.pc = "config_show"]
    /\ UNCHANGED <<now, config, messages, muted_chats, group_sizes,
                   digestVars, ingestVars, tg_muted, sweep, size_sweep, app>>

\* the preferences are fetched again and the settings page is shown
ConfigShow ==
    /\ cb.pc = "config_show"
    /\ cb' = CbDone("config_page", cb.card)
    /\ UNCHANGED <<now, config, messages, user_prefs, muted_chats, group_sizes,
                   digestVars, ingestVars, tg_muted, sweep, size_sweep, app>>

\* a session or the edit raises: the outer except reports the error
ConfigFail ==
    /\ cb.pc \in {"config_update", "config_show"}
    /\ cb' = CbDone("config_error", cb.card)
    /\ UNCHANGED <<now, config, messages, user_prefs, muted_chats, group_sizes,
                   digestVars, ingestVars, tg_muted, sweep, size_sweep, app>>

\* ------------------------------------------------------------- mute sweep
\* refresh_muted_chats up to the first dialogs of client.iter_dialogs()
SweepStart ==
    /\ sweep.pc = "idle"
    /\ sweep' = [pc |-> "iter", todo |-> Chats, acc |-> {}]
    /\ UNCHANGED <<now, config, messages, user_prefs, muted_chats, group_sizes,
                   digestVars, ingestVars, fbVars, size_sweep, app>>

\* the next dialog arrives with the notify settings Telegram holds for it
SweepDialog(c) ==
    /\ sweep.pc = "iter"
    /\ c \in sweep.todo
    /\ sweep' = [sweep EXCEPT !.todo = @ \ {c},
                              !.acc = IF c \in tg_muted THEN @ \cup {c} ELSE @]
    /\ UNCHANGED <<now, config, messages, user_prefs, muted_chats, group_sizes,
                   digestVars, ingestVars, fbVars, size_sweep, app>>

\* an update of the cache that adds what the sweep gathered to what is there
SweepInstall_Merge ==
    /\ sweep.pc = "iter"
    /\ sweep.todo = {}
    /\ muted_chats' = muted_chats \cup sweep.acc
    /\ sweep' = IdleSweep
    /\ UNCHANGED <<now, config, messages, user_prefs, group_sizes,
                   digestVars, ingestVars, fbVars, size_sweep, app>>

\* the iteration ends: _muted_chats = muted_set
SweepInstall ==
    /\ sweep.pc = "iter"
    /\ sweep.todo = {}
    /\ muted_chats' = sweep.acc
    /\ sweep' = IdleSweep
    /\ UNCHANGED <<now, config, messages, user_prefs, group_sizes,
                   digestVars, ingestVars, fbVars, size_sweep, app>>

\* iter_dialogs raises while it fetches further dialogs (FloodWaitError, a
\* lost connection): no handler in the loop catches it, the outer except
\* logs it, muted_set is dropped and the cache stays as it is. Once the
\* last dialogs were delivered no request is outstanding that could raise
SweepAbort ==
    /\ sweep.pc = "iter"
    /\ sweep.todo # {}
    /\ sweep' = IdleSweep
    /\ UNCHANGED <<now, config, messages, user_prefs, muted_chats, group_sizes,
                   digestVars, ingestVars, fbVars, size_sweep, app>>

\* ------------------------------------------------------- group-size sweep
\* the dialogs iter_dialogs may yield: the private chat, group 2 and group 3
Dialogs == Chats \cup {3}

\* participant counts Telegram may report for a group
Counts == {2, 3}

\* what a dialog of a group looks like to refresh_group_sizes: the kind of
\* its entity, the participants_count attribute of the entity (None if it
\* is not filled in), and how GetFullChatRequest / GetFullChannelRequest
\* would end: a count, FloodWaitError ("flood") or another exception ("error")
GroupDialogs ==
    [entity : {"Chat", "megagroup"},
     attr   : {None} \cup Counts,
     fetch  : [kind : {"flood", "error"}, count : {None}]
              \cup [kind : {"ok"}, count : Counts]]

\* the dialog makes the loop break: a FloodWaitError of the request the code
\* sends for it
FloodWait(d) ==
    IF d.entity = "Chat"
    THEN d.attr = None /\ d.fetch.kind = "flood"
    ELSE d.fetch.kind = "flood"

\* participant_count as the loop body leaves it for a dialog that does not
\* break the loop
participant_count(d) ==
    IF d.entity = "Chat"
    THEN IF d.attr # None THEN d.attr
         ELSE IF d.fetch.kind = "ok" THEN d.fetch.count ELSE None
    ELSE IF d.fetch.kind = "ok" THEN d.fetch.count ELSE d.attr

\* sizes_dict[chat_id] = participant_count
Store(sizes_dict, chat_id, count) ==
    [x \in DOMAIN sizes_dict \cup {chat_id} |->
        IF x = chat_id THEN count ELSE sizes_dict[x]]

\* an install that takes the gathered map also when it is empty
InstallSizes_Always(cache, sizes_dict) == sizes_dict

\* "Update global cache (even if partial due to flood wait)": if sizes_dict
\* then _group_sizes = sizes_dict, else the cache stays
InstallSizes(cache, sizes_dict) ==
    IF DOMAIN sizes_dict # {} THEN sizes_dict ELSE cache

\* the line the update of the cache logs
InstallLog(sizes_dict) ==
    IF DOMAIN sizes_dict # {} THEN "refreshed" ELSE "no_results"

\* refresh_group_sizes up to the first dialog; ds are the dialogs the
\* account has at this time
SizeSweepStart(ds) ==
    /\ size_sweep.pc = "idle"
    /\ size_sweep' = [IdleSizeSweep EXCEPT !.pc = "iter", !.todo = ds]
    /\ UNCHANGED <<now, config, messages, user_prefs, muted_chats, group_sizes,
                   digestVars, ingestVars, fbVars, sweep, app>>

\* a loop that writes each count into the cache as soon as it has it
SizeSweepDialog_InPlace(c) ==
    /\ size_sweep.pc = "iter"
    /\ c \in size_sweep.todo
    /\ IF get_chat_type(c) # "group"
       THEN /\ size_sweep' = [size_sweep EXCEPT !.todo = @ \ {c}]
            /\ group_sizes' = group_sizes
       ELSE \E d \in GroupDialogs :
            IF FloodWait(d)
            THEN /\ group_sizes' = group_sizes
                 /\ size_sweep' = [IdleSizeSweep EXCEPT
                        !.flood = TRUE, !.log = InstallLog(size_sweep.acc)]
            ELSE /\ size_sweep' = [size_sweep EXCEPT
                        !.todo = @ \ {c},
                        !.acc = IF participant_count(d) # None
                                THEN Store(@, c, participant_count(d)) ELSE @]
                 /\ group_sizes' = IF participant_count(d) # None
                                   THEN Store(group_sizes, c, participant_count(d))
                                   ELSE group_sizes
    /\ UNCHANGED <<now, config, messages, user_prefs, muted_chats,
                   digestVars, ingestVars, fbVars, sweep, app>>

\* one turn of the loop: a dialog that is not a group is passed over; a
\* FloodWaitError breaks the loop and the function goes on to the update of
\* the cache without an await; otherwise the count, if there is one, goes
\* into sizes_dict
SizeSweepDialog(c) ==
    /\ size_sweep.pc = "iter"
    /\ c \in size_sweep.todo
    /\ IF get_chat_type(c) # "group"
       THEN /\ size_sweep' = [size_sweep EXCEPT !.todo = @ \ {c}]
            /\ group_sizes' = group_sizes
       ELSE \E d \in GroupDialogs :
            IF FloodWait(d)
            THEN /\ group_sizes' = InstallSizes(group_sizes, size_sweep.acc)
                 /\ size_sweep' = [IdleSizeSweep EXCEPT
                        !.flood = TRUE, !.log = InstallLog(size_sweep.acc)]
            ELSE /\ size_sweep' = [size_sweep EXCEPT
                        !.todo = @ \ {c},
                        !.acc = IF participant_count(d) # None
                                THEN Store(@, c, participant_count(d)) ELSE @]
                 /\ group_sizes' = group_sizes
    /\ UNCHANGED <<now, config, messages, user_prefs, muted_chats,
                   digestVars, ingestVars, fbVars, sweep, app>>

\* the iteration ends: the update of the cache
SizeSweepInstall ==
    /\ size_sweep.pc = "iter"
    /\ size_sweep.todo = {}
    /\ group_sizes' = InstallSizes(group_sizes, size_sweep.acc)
    /\ size_sweep' = [IdleSizeSweep EXCEPT !.log = InstallLog(size_sweep.acc)]
    /\ UNCHANGED <<now, config, messages, user_prefs, muted_chats,
                   digestVars, ingestVars, fbVars, sweep, app>>

\* iter_dialogs itself raises while it fetches further dialogs, a
\* FloodWaitError (rate_limited) or another exception: the outer except
\* logs it, sizes_dict is dropped and the cache stays as it is
SizeSweepAbort ==
    /\ size_sweep.pc = "iter"
    /\ size_sweep.todo # {}
    /\ \E rate_limited \in BOOLEAN :
          size_sweep' = [IdleSizeSweep EXCEPT !.log = "failed", !.flood = rate_limited]
    /\ UNCHANGED <<now, config, messages, user_prefs, muted_chats, group_sizes,
                   digestVars, ingestVars, fbVars, sweep, app>>

\* the processes a specification leaves out stay idle
OthersIdle ==
    /\ ing = IdleIng
    /\ alerts = <<>>
    /\ cb = IdleCb
    /\ tg_muted = {}
    /\ sweep = IdleSweep
    /\ size_sweep = IdleSizeSweep
    /\ app = RunningApp

\* config.load_config: the settings the pipeline reads
Configs ==
    [summary_interval_hours : {1},
     max_messages_per_summary : 1..MaxCap,
     min_priority_score : {1},
     ignore_muted_chats : BOOLEAN,
     ignore_large_groups : BOOLEAN,
     max_group_size : {2},
     warning_threshold_score : {5},
     ai_enabled : BOOLEAN]

\* ----------------------------------------------------------------- shutdown
\* SecretaryBot.run: the wait ends with a signal or with the client
\* disconnected, or startup() raised; the finally clause calls shutdown()
ShutdownBegin ==
    /\ app.pc = "running"
    /\ \E disconnected \in BOOLEAN :
          app' = [app EXCEPT !.pc = "stop_scheduler",
                             !.stream = IF disconnected THEN FALSE ELSE @]
    /\ UNCHANGED <<now, config, messages, user_prefs, muted_chats, group_sizes,
                   digestVars, ingestVars, fbVars, sweep, size_sweep>>

\* a shutdown that lets the exception of stop_scheduler() end it
StopScheduler_Propagates ==
    /\ app.pc = "stop_scheduler"
    /\ \E raised \in BOOLEAN, still \in BOOLEAN :
          IF ~app.scheduler
          THEN app' = [app EXCEPT !.pc = "stop_userbot",
                                  !.order = Append(@, "scheduler")]
          ELSE IF raised
          THEN app' = [app EXCEPT !.pc = "done",
                                  !.order = Append(@, "scheduler"),
                                  !.failed = @ \cup {"scheduler"},
                                  !.timers = still]
          ELSE app' = [app EXCEPT !.pc = "stop_userbot",
                                  !.order = Append(@, "scheduler"),
                                  !.scheduler = FALSE, !.timers = FALSE]
    /\ UNCHANGED <<now, config, messages, user_prefs, muted_chats, group_sizes,
                   digestVars, ingestVars, fbVars, sweep, size_sweep>>

\* shutdown, "Stop scheduler first": stop_scheduler() does nothing without a
\* scheduler; _scheduler.shutdown(wait=True) returns and the global is
\* cleared, or it raises, the global stays set, the except clause logs the
\* error and shutdown goes on (still: the timers go on running)
StopScheduler ==
    /\ app.pc = "stop_scheduler"
    /\ \E raised \in BOOLEAN, still \in BOOLEAN :
          IF ~app.scheduler
          THEN app' = [app EXCEPT !.pc = "stop_userbot",
                                  !.order = Append(@, "scheduler")]
          ELSE IF raised
          THEN app' = [app EXCEPT !.pc = "stop_userbot",
                                  !.order = Append(@, "scheduler"),
                                  !.failed = @ \cup {"scheduler"},
                                  !.timers = still]
          ELSE app' = [app EXCEPT !.pc = "stop_userbot",
                                  !.order = Append(@, "scheduler"),
                                  !.scheduler = FALSE, !.timers = FALSE]
    /\ UNCHANGED <<now, config, messages, user_prefs, muted_chats, group_sizes,
                   digestVars, ingestVars, fbVars, sweep, size_sweep>>

\* shutdown, "Stop userbot": stop_userbot() does nothing without a client;
\* _userbot_client.disconnect() returns and the global is cleared, or it
\* raises and the global stays set
StopUserbot ==
    /\ app.pc = "stop_userbot"
    /\ \E raised \in BOOLEAN, still \in BOOLEAN :
          IF ~app.userbot_client
          THEN app' = [app EXCEPT !.pc = "stop_bot",
                                  !.order = Append(@, "userbot")]
          ELSE IF raised
          THEN app' = [app EXCEPT !.pc = "stop_bot",
                                  !.order = Append(@, "userbot"),
                                  !.failed = @ \cup {"userbot"},
                                  !.stream = app.stream /\ still]
          ELSE app' = [app EXCEPT !.pc = "stop_bot",
                                  !.order = Append(@, "userbot"),
                                  !.userbot_client = FALSE, !.stream = FALSE]
    /\ UNCHANGED <<now, config, messages, user_prefs, muted_chats, group_sizes,
                   digestVars, ingestVars, fbVars, sweep, size_sweep>>

\* shutdown, "Stop bot": stop_bot() does nothing without an application;
\* updater.stop(), stop() and shutdown() return and the global is cleared,
\* or one of them raises and the global stays set
StopBot ==
    /\ app.pc = "stop_bot"
    /\ \E raised \in BOOLEAN, still \in BOOLEAN :
          IF ~app.bot_app
          THEN app' = [app EXCEPT !.pc = "close_database",
                                  !.order = Append(@, "bot")]
          ELSE IF raised
          THEN app' = [app EXCEPT !.pc = "close_database",
                                  !.order = Append(@, "bot"),
                                  !.failed = @ \cup {"bot"},
                                  !.front_end = still]
          ELSE app' = [app EXCEPT !.pc = "close_database",
                                  !.order = Append(@, "bot"),
                                  !.bot_app = FALSE, !.front_end = FALSE]
    /\ UNCHANGED <<now, config, messages, user_prefs, muted_chats, group_sizes,
                   digestVars, ingestVars, fbVars, sweep, size_sweep>>

\* shutdown, "Close database": close_database() does nothing without an
\* engine; _engine.dispose() closes the pool (the global stays set), or it
\* raises and the except clause logs the error
CloseDatabase ==
    /\ app.pc = "close_database"
    /\ \E raised \in BOOLEAN, still \in BOOLEAN :
          IF ~app.engine
          THEN app' = [app EXCEPT !.pc = "done",
                                  !.order = Append(@, "database")]
          ELSE IF raised
          THEN app' = [app EXCEPT !.pc = "done",
                                  !.order = Append(@, "database"),
                                  !.failed = @ \cup {"database"},
                                  !.pool = IF still THEN "open" ELSE "closed"]
          ELSE app' = [app EXCEPT !.pc = "done",
                                  !.order = Append(@, "database"),
                                  !.pool = "closed"]
    /\ UNCHANGED <<now, config, messages, user_prefs, muted_chats, group_sizes,
                   digestVars, ingestVars, fbVars, sweep, size_sweep>>

\* ------------------------------------------- SpecDigest: concurrent digests
\* the scheduled job and /summary run generate_and_send_summary concurrently
\* while messages are ingested
InitDigest ==
    /\ now = 1
    /\ config \in {c \in Configs :
                        c.ignore_muted_chats /\ ~c.ignore_large_groups /\ ~c.ai_enabled}
    /\ messages = <<>>
    /\ user_prefs = {}
    /\ muted_chats = {}
    /\ group_sizes = <<>>
    /\ run = [r \in Runners |-> IdleRun]
    /\ sent = {}
    /\ OthersIdle

NextDigest ==
    \/ \E r \in Runners : DigestStats(r)
    \/ \E r \in Runners : DigestPlan(r)
    \/ \E r \in Runners : DigestPrefs(r)
    \/ \E r \in Runners : DigestSelect(r)
    \/ \E r \in Runners : DigestMark(r)
    \/ \E r \in Runners : DigestCommit(r)
    \/ \E r \in Runners : DigestFail(r)
    \/ \E r \in Runners : DigestDeliver(r)
    \/ \E c \in Chats : PersistMessage(c, 1)

SpecDigest == InitDigest /\ [][NextDigest]_vars

\* C1: two overlapping invocations of get_unlabeled_messages (the scheduled
\* job and /summary) never return the same record id in both result sets
C1_NoSharedRecord ==
    (run["job"].pc = "returned" /\ run["cmd"].pc = "returned")
        => Range(run["job"].result) \cap Range(run["cmd"].result) = {}

\* C2: every record delivered by send_summary, and every record in a result
\* get_unlabeled_messages has returned, has its inclusion flag committed in
\* the store, whether the run goes on to succeed or to fail
C2_MarkBeforeDelivery ==
    /\ \A id \in sent : messages[id].included_in_summary
    /\ \A r \in Runners : run[r].pc = "returned" =>
           \A id \in Range(run[r].result) : messages[id].included_in_summary

\* a run failed in delivery after a card had gone out
C2_Witness ==
    \E r \in Runners : run[r].outcome = "error" /\ sent # {}

\* a failure inside the select-and-mark transaction of runner r ends the run
\* with the error notice. A run keeps no count of attempts, so every failure
\* it meets is its first
FirstFailureSurfaces(r) ==
    /\ run[r].pc \in {"select", "mark", "commit"}
    /\ run'[r].pc = "idle"
    /\ run'[r].outcome = "error"

\* C30: when the storage layer reports lock contention during the digest
\* select-and-mark transaction the write is retried a small bounded number
\* of times before the failure is surfaced, so that a single transient
\* failure followed by an available store still ends with the selected
\* records marked and returned: the first failure of a run never ends it
C30_RetriedBeforeSurfaced == [][\A r \in Runners : ~FirstFailureSurfaces(r)]_vars

\* ---------------------------------------------- SpecSelect: one digest run
\* the rows a store may hold when a digest starts: fresh rows of every chat,
\* score and age, and a labeled and an already included row that pass every
\* other condition of the query
Rows ==
    {NewMessage(c, s, t) : c \in Chats, s \in Scores, t \in 1..MaxTime}
    \cup {[NewMessage(2, 2, MaxTime) EXCEPT !.label = "high", !.labeled_at = MaxTime],
          [NewMessage(2, 2, MaxTime) EXCEPT !.included_in_summary = TRUE,
                                            !.summary_sent_at = MaxTime]}

Stores == UNION {[1..n -> Rows] : n \in 0..MaxMsgs}

\* stored preferences whose minimum score is above the configured one
StrictPrefRow ==
    [min_priority_score |-> 2, warning_threshold_score |-> 3,
     ignore_large_groups |-> TRUE, max_group_size |-> 2,
     ignore_muted_chats |-> FALSE]

InitSelect ==
    /\ now = MaxTime
    /\ config \in {c \in Configs :
                        c.ignore_muted_chats /\ ~c.ignore_large_groups /\ ~c.ai_enabled}
    /\ messages \in Stores
    /\ user_prefs \in {{}, {StrictPrefRow}}
    /\ muted_chats = {1}
    /\ group_sizes = <<>>
    /\ run = [r \in Runners |-> IdleRun]
    /\ sent = {}
    /\ OthersIdle

NextSelect ==
    \/ DigestStats("job")
    \/ DigestPlan("job")
    \/ DigestPrefs("job")
    \/ DigestSelect("job")
    \/ DigestMark("job")
    \/ DigestCommit("job")
    \/ DigestFail("job")
    \/ DigestDeliver("job")

SpecSelect == InitSelect /\ [][NextSelect]_vars

\* a sorts at or before b: higher score, or equal score and not older
AtOrBefore(a, b) ==
    \/ messages[a].priority_score > messages[b].priority_score
    \/ /\ messages[a].priority_score = messages[b].priority_score
       /\ messages[a].timestamp >= messages[b].timestamp

C10_Returned ==
    run["job"].pc = "returned" =>
        LET res == run["job"].result
            q   == run["job"].qual
        IN  /\ Len(res) = Min(config.max_messages_per_summary, Cardinality(q))
            /\ Range(res) \subseteq q
            /\ \A i, j \in DOMAIN res : i < j =>
                   res[i] # res[j] /\ AtOrBefore(res[i], res[j])
            /\ \A a \in Range(res), b \in q \ Range(res) : AtOrBefore(a, b)

C10_Marked ==
    (run["job"].pc = "commit" /\ run'["job"].pc = "returned") =>
        {i \in DOMAIN messages :
            ~messages[i].included_in_summary /\ messages'[i].included_in_summary}
        = Range(run'["job"].result)

\* C10: a digest run returns exactly min(cap, number of qualifying records)
\* records, the highest-scoring ones with ties broken by the most recent
\* timestamp, and the records the run marks as included are exactly the
\* records it returns
C10_CapAndOrder == []C10_Returned /\ [][C10_Marked]_vars

\* the cap cut a tie in score: the newer record was returned, the older left
C10_Witness ==
    /\ run["job"].pc = "returned"
    /\ Cardinality(run["job"].qual) > config.max_messages_per_summary
    /\ \E a \in Range(run["job"].result),
          b \in run["job"].qual \ Range(run["job"].result) :
            /\ messages[a].priority_score = messages[b].priority_score
            /\ messages[a].timestamp > messages[b].timestamp

\* the minimum score the stored preferences ask for, the configured one if
\* no preferences are stored
StoredMinimum ==
    IF user_prefs # {} THEN (CHOOSE p \in user_prefs : TRUE).min_priority_score
    ELSE config.min_priority_score

\* the step in which the query of a digest run returns its rows
SelectReturns(r) == run[r].pc = "select" /\ run'[r].pc \in {"mark", "commit"}

\* what the rows a query returns have in common when it returns them
C11_Selected ==
    SelectReturns("job") =>
        /\ run["job"].cutoff = now - config.summary_interval_hours
        /\ \A id \in Range(run'["job"].result) :
              /\ id \in DOMAIN messages
              /\ messages[id].timestamp >= run["job"].cutoff
              /\ messages[id].timestamp <= now
              /\ messages[id].label = NULL
              /\ messages[id].included_in_summary = FALSE
              /\ messages[id].priority_score >= run["job"].min_priority

C11_StoredStep ==
    /\ C11_Selected
    /\ SelectReturns("job") => run["job"].min_priority = StoredMinimum

\* C11 as stated: every record a digest selection returns is, when selected,
\* inside the lookback window, unlabeled, not yet included, and scored at or
\* above the stored minimum-priority preference, the configured default
\* being used only when no preference is stored
C11_StoredMinimumOnly == [][C11_StoredStep]_vars

C11_Step ==
    /\ C11_Selected
    /\ SelectReturns("job") =>
           /\ run["job"].min_priority \in {StoredMinimum, config.min_priority_score}
           /\ user_prefs = {} => run["job"].min_priority = config.min_priority_score

\* C11: every record a digest selection returns is, when selected, inside
\* the lookback window, unlabeled, not yet included, and scored at or above
\* the minimum the run applies: the stored minimum-priority preference, or
\* the configured default when no preference is stored or reading the
\* preferences raised
C11_SelectionPredicate == [][C11_Step]_vars

\* a run that applied a stored minimum above the default returned a record
\* and left a fresh, unlabeled record below that minimum behind, with room
\* under the cap
C11_Witness ==
    /\ run["job"].pc = "returned"
    /\ user_prefs # {}
    /\ run["job"].min_priority = StoredMinimum
    /\ StoredMinimum > config.min_priority_score
    /\ run["job"].result # <<>>
    /\ Len(run["job"].result) < config.max_messages_per_summary
    /\ \E i \in DOMAIN messages \ Range(run["job"].result) :
          /\ messages[i].timestamp >= run["job"].cutoff
          /\ messages[i].label = NULL
          /\ messages[i].chat_id \notin run["job"].excluded
          /\ messages[i].priority_score < run["job"].min_priority
          /\ messages[i].priority_score >= config.min_priority_score

\* a digest run ends without a storage or delivery failure
RunEnds(r) == run[r].pc # "idle" /\ run'[r].pc = "idle" /\ run'[r].outcome # "error"

\* some record of the store was captured inside the lookback window
RecordInWindow ==
    \E i \in DOMAIN messages :
        messages[i].timestamp >= now - config.summary_interval_hours

\* no record of the store passes the query the run made
NoneQualifies(r) ==
    /\ run[r].qual = {}
    /\ run[r].result = <<>>
    /\ ~ \E i \in DOMAIN messages :
            /\ messages[i].timestamp >= run[r].cutoff
            /\ messages[i].label = NULL
            /\ ~messages[i].included_in_summary
            /\ messages[i].priority_score >= run[r].min_priority
            /\ messages[i].chat_id \notin run[r].excluded

C21_Step ==
    RunEnds("job") =>
        /\ run'["job"].outcome = "quiet" <=> ~RecordInWindow
        /\ run'["job"].outcome = "nothing" <=>
               (RecordInWindow /\ run["job"].pc = "returned" /\ NoneQualifies("job"))
        /\ run'["job"].outcome = "nothing" =>
               run["job"].total =
                   Cardinality({i \in DOMAIN messages :
                       messages[i].timestamp >= now - config.summary_interval_hours})
        /\ run'["job"].outcome \in {"quiet", "nothing"} =>
               /\ run["job"].marked = {}
               /\ messages' = messages
               /\ sent' = sent

\* C21: a digest run in which zero records qualify reports the quiet-period
\* notice exactly when no record at all has a capture timestamp in the
\* window, and the nothing-needs-attention notice, with the count of the
\* records in the window, exactly when records exist in the window but none
\* qualifies; in either case the run marks no record as included
C21_QuietOrNothing == [][C21_Step]_vars

\* a run just reported that nothing needs attention: the window holds a
\* record, and every record in it is labeled, included, excluded or scored
\* below the minimum
C21_Witness ==
    /\ run["job"].pc = "idle"
    /\ run["job"].outcome = "nothing"
    /\ RecordInWindow
    /\ \E i \in DOMAIN messages : messages[i].label # NULL
    /\ \A i \in DOMAIN messages : messages[i].summary_sent_at = 0

\* get_unlabeled_messages of run r returns its list to the digest
RunReturns(r) == run[r].pc = "commit" /\ run'[r].pc = "returned"

\* in every step: a record a run returns was not marked included before the
\* run's own commit and is marked by it, and a record once marked stays
\* marked, whether or not its card was delivered; so no later run finds it
C34_Step ==
    /\ \A r \in Runners : RunReturns(r) =>
            \A k \in DOMAIN run[r].result :
                /\ ~messages[run[r].result[k]].included_in_summary
                /\ messages'[run[r].result[k]].included_in_summary
    /\ \A i \in DOMAIN messages :
            messages[i].included_in_summary =>
                i \in DOMAIN messages' /\ messages'[i].included_in_summary

\* C34: across any sequence of non-overlapping digest runs each record
\* identifier is returned by at most one run; a record marked included by a
\* run whose delivery then failed is never returned by a later run
C34_NoResend == [][C34_Step]_vars

\* a later run has returned a record while a record marked by an earlier
\* run of this behaviour (no store starts with a marked row of its score)
\* was never delivered
C34_Witness ==
    /\ run["job"].pc = "returned"
    /\ run["job"].result # <<>>
    /\ \E i \in DOMAIN messages :
            /\ messages[i].included_in_summary
            /\ messages[i].priority_score # 2
            /\ i \notin sent
            /\ i \notin Range(run["job"].result)
            /\ messages[i].label = NULL

\* ------------------------------ SpecPrefs: a digest and the settings page
\* the group-size cache after a sweep that saw group 2 with three participants
SizesOfThree == [c \in {2} |-> 3]

\* a store with a record of the muted chat 1 and one of the oversized group 2;
\* the user changes the filter toggles while the scheduled digest runs
InitPrefs ==
    /\ now = MaxTime
    /\ config \in {c \in Configs :
                        ~c.ai_enabled /\ c.max_messages_per_summary = MaxCap}
    /\ messages = <<NewMessage(1, 2, MaxTime), NewMessage(2, 2, MaxTime)>>
    /\ user_prefs \in {{}, {StrictPrefRow}}
    /\ muted_chats = {1}
    /\ group_sizes = SizesOfThree
    /\ run = [r \in Runners |-> IdleRun]
    /\ sent = {}
    /\ OthersIdle

NextPrefs ==
    \/ \E a \in ToggleActions : ConfigStart(a)
    \/ ConfigUpdate
    \/ ConfigShow
    \/ ConfigFail
    \/ DigestStats("job")
    \/ DigestPlan("job")
    \/ DigestPrefs("job")
    \/ DigestSelect("job")
    \/ DigestMark("job")
    \/ DigestCommit("job")
    \/ DigestFail("job")
    \/ DigestDeliver("job")

SpecPrefs == InitPrefs /\ [][NextPrefs]_vars

\* the filter toggles in force: the stored preferences, or the configured
\* defaults while no preferences are stored
ActiveIgnoreMuted ==
    IF user_prefs # {} THEN (CHOOSE p \in user_prefs : TRUE).ignore_muted_chats
    ELSE config.ignore_muted_chats

ActiveIgnoreLargeGroups ==
    IF user_prefs # {} THEN (CHOOSE p \in user_prefs : TRUE).ignore_large_groups
    ELSE config.ignore_large_groups

\* the step in which a digest run computes its excluded set
PlanExcludes(r) == run[r].pc = "stats" /\ run'[r].pc = "prefs"

C12_Step ==
    /\ PlanExcludes("job") =>
           run'["job"].excluded =
               (IF ActiveIgnoreMuted THEN muted_chats ELSE {})
               \cup (IF ActiveIgnoreLargeGroups
                     THEN get_large_group_ids(config.max_group_size) ELSE {})
    /\ SelectReturns("job") =>
           \A id \in Range(run'["job"].result) :
               messages[id].chat_id \notin run["job"].excluded

\* C12: the excluded set of a digest selection follows the toggles stored in
\* the user's preferences when the run computes it: with the muted-chat
\* (large-group) filter switched on there, every chat of the mute cache (of
\* the oversized set) is excluded and no record of it is returned, whatever
\* the configured defaults are, and a filter switched off excludes nothing
C12_ActiveToggles == [][C12_Step]_vars

\* ------------------------------------------ SpecScore: rule-based scoring
\* len(message_text) of the texts a call may get; None for no text
Lengths == {None} \cup (0..MaxLength)

\* calculate_priority_score is called on a message and returns
ScoreCall(length, has_mention, is_question, is_high_priority) ==
    /\ ing.pc \in {"idle", "scored"}
    /\ ing' = [IdleIng EXCEPT
            !.pc = "scored", !.length = length, !.has_mention = has_mention,
            !.is_question = is_question, !.is_high_priority = is_high_priority,
            !.score = calculate_priority_score(length, has_mention, is_question,
                                               is_high_priority)]
    /\ UNCHANGED <<now, config, messages, user_prefs, muted_chats, group_sizes,
                   digestVars, alerts, fbVars, sweep, size_sweep, app>>

InitScore ==
    /\ now = 1
    /\ config \in {c \in Configs :
                        /\ c.ignore_muted_chats /\ ~c.ignore_large_groups
                        /\ ~c.ai_enabled /\ c.max_messages_per_summary = 1}
    /\ messages = <<>>
    /\ user_prefs = {}
    /\ muted_chats = {}
    /\ group_sizes = <<>>
    /\ run = [r \in Runners |-> IdleRun]
    /\ sent = {}
    /\ OthersIdle

NextScore ==
    \E length \in Lengths, m \in BOOLEAN, q \in BOOLEAN, hp \in BOOLEAN :
        ScoreCall(length, m, q, hp)

SpecScore == InitScore /\ [][NextScore]_vars

\* 1 for a signal that is present, 0 for one that is absent
Bit(b) == IF b THEN 1 ELSE 0

\* the text of the scored call is present and longer than 100 characters
LongText == ing.length # None /\ ing.length >= 101

\* C13: the rule-based score is 3 for a mention + 2 for a question + 1 for a
\* text that is present and longer than 100 characters + 2 for a flagged
\* sender: a long message with no other signal scores 1, a text of exactly
\* 100 characters or no text gets no length point, mention + question +
\* flagged sender score 7 (8 if long), and every score is within 0..8
C13_ReferenceSum ==
    ing.pc = "scored" =>
        /\ ing.score = 3 * Bit(ing.has_mention) + 2 * Bit(ing.is_question)
                        + Bit(LongText) + 2 * Bit(ing.is_high_priority)
        /\ (LongText /\ ~ing.has_mention /\ ~ing.is_question
                /\ ~ing.is_high_priority) => ing.score = 1
        /\ (ing.length \in {None, 0, 100} /\ ~ing.has_mention /\ ~ing.is_question
                /\ ~ing.is_high_priority) => ing.score = 0
        /\ (ing.has_mention /\ ing.is_question /\ ing.is_high_priority)
                => ing.score = IF LongText THEN 8 ELSE 7
        /\ ing.score \in 0..8

\* a text of exactly 100 characters with every other signal scored 7
C13_Witness ==
    /\ ing.pc = "scored"
    /\ ing.length = MIN_LONG_MESSAGE_LENGTH
    /\ ing.has_mention /\ ing.is_question /\ ing.is_high_priority
    /\ ing.score = 7

\* ------------------------------------------------ SpecIngest: ingestion
\* the stored preferences the specifications start from
PrefRow ==
    [min_priority_score |-> 1, warning_threshold_score |-> 3,
     ignore_large_groups |-> TRUE, max_group_size |-> 2,
     ignore_muted_chats |-> FALSE]

\* the group-size cache after a sweep that saw group 2 with two participants
SizesOfTwo == [c \in {2} |-> 2]

InitIngest ==
    /\ now = 1
    /\ config \in {c \in Configs : c.ignore_muted_chats /\ c.max_messages_per_summary = 1}
    /\ messages = <<>>
    /\ user_prefs \in {{}, {PrefRow}}
    /\ muted_chats = {1}
    /\ group_sizes \in {<<>>, SizesOfTwo}
    /\ run = [r \in Runners |-> IdleRun]
    /\ sent = {}
    /\ OthersIdle

NextIngest ==
    \/ \E c \in Chats, sender \in {"other", "self"}, length \in {0, 100, 101},
          m \in BOOLEAN, q \in BOOLEAN :
            /\ Len(messages) < MaxIngest
            /\ IngestReceive(c, sender, length, m, q, FALSE)
    \/ IngestFilter
    \/ IngestOracle
    \/ IngestTopic(TopicDown)
    \/ IngestPersist
    \/ IngestPersistFail
    \/ IngestThreshold
    \/ AlertSend
    \/ AlertMark
    \/ AlertMarkLocked

SpecIngest == InitIngest /\ [][NextIngest]_vars

\* the event in ing has been persisted and its processing has ended
Finished == ing.pc = "idle" /\ ing.id # 0

\* C7 as stated: every persisted message whose score is at or above the
\* applicable warning threshold gets an alert exactly once
C7_AlertExactlyOnce ==
    (Finished /\ ing.score >= ing.threshold) => AlertCount(ing.id) = 1

\* C7: a persisted message gets at most one alert; it gets exactly one when
\* its score is at or above the warning threshold and bot.send_message
\* succeeds, and none when the score is below the threshold, the send raises
\* or there is no bot application to send with
C7_AlertAtMostOnce ==
    /\ \A id \in DOMAIN messages : AlertCount(id) <= 1
    /\ Finished =>
        /\ (ing.score >= ing.threshold
                /\ ing.outcome \notin {"alert_failed", "alert_skipped"})
               => AlertCount(ing.id) = 1
        /\ (ing.score < ing.threshold
                \/ ing.outcome \in {"alert_failed", "alert_skipped"})
               => (AlertCount(ing.id) = 0 /\ ~messages[ing.id].warning_sent)

\* an alert went out after the update of warning_sent had been retried
C7_Witness ==
    Finished /\ ing.outcome = "alerted" /\ ing.attempt > 0 /\ AlertCount(ing.id) = 1

\* the rule-based score of the event in ing
RuleScore ==
    calculate_priority_score(ing.length, ing.has_mention, ing.is_question,
                             ing.is_high_priority)

\* the oracle call of the event in ing timed out, failed, or replied without a number
OracleFailed ==
    \/ ing.oracle.kind \in {"timeout", "error"}
    \/ ing.oracle.kind = "reply" /\ \A i \in DOMAIN ing.oracle.reply :
                                        ing.oracle.reply[i] = NoDigits

\* C8: when the oracle call times out, replies without a number or fails in
\* any other way, the event is scored and persisted with its rule-based score
\* and its processing does not end in an error of the scoring step
C8_OracleFallback ==
    OracleFailed =>
        /\ ing.outcome # "score_error"
        /\ ing.score = RuleScore
        /\ ing.id # 0 => messages[ing.id].priority_score = RuleScore

\* a timed-out oracle call, and the record stored with a rule-based score above 0
C8_Witness ==
    /\ ing.oracle.kind = "timeout"
    /\ ing.id # 0
    /\ messages[ing.id].priority_score = RuleScore
    /\ RuleScore > 0

\* the scores a record may carry
ValidScores == AI_PRIORITY_SCORE_MIN..AI_PRIORITY_SCORE_MAX

C18_Step ==
    /\ \A i \in DOMAIN messages :
          /\ i \in DOMAIN messages'
          /\ messages'[i].priority_score = messages[i].priority_score
    /\ \A i \in DOMAIN messages' \ DOMAIN messages :
          /\ ing.pc = "persist"
          /\ ing.score \in ValidScores
          /\ messages'[i].priority_score = ing.score

\* C18: the score of an event is set, and within 0..10, before the event is
\* written, whether the oracle gave it (clamped to 0..10) or the rules; the
\* record is written with that score and keeps it, so no record is ever in
\* the store without a score within 0..10
C18_ScoreInvariant ==
    /\ [](\A i \in DOMAIN messages : messages[i].priority_score \in ValidScores)
    /\ [](ing.pc \in {"topic", "persist"} => ing.score \in ValidScores)
    /\ [][C18_Step]_vars

\* the oracle answered 12 and the record is stored with the score 10
C18_Witness ==
    /\ ing.oracle.kind = "reply" /\ ing.oracle.reply = <<12>>
    /\ ing.id \in DOMAIN messages
    /\ messages[ing.id].priority_score = AI_PRIORITY_SCORE_MAX

\* the warning threshold the stored preferences hold, the configured one if
\* no preferences are stored
StoredThreshold ==
    IF user_prefs # {} THEN (CHOOSE p \in user_prefs : TRUE).warning_threshold_score
    ELSE config.warning_threshold_score

\* the step in which save_message settles the threshold and compares
Compares == ing.pc = "threshold" /\ ing'.pc # "threshold"

C20_Step ==
    /\ Compares =>
           /\ ing.id \in DOMAIN messages
           /\ messages[ing.id].priority_score = ing.score
           /\ ing'.threshold \in {StoredThreshold, config.warning_threshold_score}
           /\ user_prefs = {} => ing'.threshold = config.warning_threshold_score
           /\ ing'.pc = "alert" <=> ing.score >= ing'.threshold
           /\ ing'.pc # "alert" => (ing'.pc = "idle" /\ ing'.outcome = "saved")
    /\ (ing.pc # "alert" /\ ing'.pc = "alert") => Compares

\* C20: the alert dispatcher is invoked for a persisted record exactly when
\* the score just computed for it is at or above the threshold save_message
\* settled on: the stored warning threshold when one is stored and the read
\* succeeds, the configured default when none is stored or the read raises
C20_ThresholdSource ==
    /\ [](ing.pc \in {"alert", "mark"} => ing.score >= ing.threshold)
    /\ []((Finished /\ ing.outcome = "saved") => ing.score < ing.threshold)
    /\ [][C20_Step]_vars

\* a record whose score equals the stored threshold and is below the
\* configured default was alerted on
C20_Witness ==
    /\ Finished
    /\ user_prefs # {}
    /\ ing.threshold = StoredThreshold
    /\ ing.score = ing.threshold
    /\ ing.score < config.warning_threshold_score
    /\ AlertCount(ing.id) = 1

\* the place of a step in the processing of one event: the filters, the
\* score, the topic, the write of the record, the alert decision, the alert
StepRank(pc) ==
    CASE pc = "prefs" -> 1
      [] pc = "oracle" -> 2
      [] pc = "topic" -> 3
      [] pc = "persist" -> 4
      [] pc = "threshold" -> 5
      [] pc = "alert" -> 6
      [] pc = "mark" -> 7
      [] OTHER -> 0

\* the record of the event in ing is committed and is the event's record
RecordWritten ==
    /\ ing.id \in DOMAIN messages
    /\ messages[ing.id].chat_id = ing.chat
    /\ messages[ing.id].priority_score = ing.score

\* in every state: nothing is written before the filters and the score are
\* done, the alert decision and the alert find the committed record, and
\* every alert that went out names a record a lookup by id finds
C32_Order ==
    /\ ing.pc \in {"prefs", "oracle"} => ing.score = None /\ ing.id = 0
    /\ ing.pc \in {"topic", "persist"} => ing.score # None /\ ing.id = 0
    /\ ing.pc \in {"threshold", "alert", "mark"} => RecordWritten
    /\ \A k \in DOMAIN alerts : alerts[k] \in DOMAIN messages

\* in every step: the processing of an event only moves forward through its
\* steps, the record is written by the step after the topic call and by no
\* other, and an alert goes out only from the alert step and carries the
\* identifier of the record written for this event
C32_Step ==
    /\ (ing.pc # "idle" /\ ing'.pc \notin {"idle", ing.pc}) =>
            StepRank(ing'.pc) > StepRank(ing.pc)
    /\ Len(messages') # Len(messages) =>
            /\ ing.pc = "persist" /\ ing'.pc = "threshold"
            /\ ing'.id = Len(messages')
    /\ alerts' # alerts =>
            /\ ing.pc = "alert"
            /\ alerts' = Append(alerts, ing.id)
            /\ RecordWritten

\* C32: within the processing of one inbound event the steps occur in the
\* order filter, score, persist, alert; the alert is sent only after the
\* record's write has committed and with the identifier of that record, so
\* a label action coming from the alert finds the record
C32_StepOrder == []C32_Order /\ [][C32_Step]_vars

\* an alert went out for the record of the event in ing
C32_Witness ==
    /\ ing.pc = "mark"
    /\ alerts # <<>>
    /\ alerts[Len(alerts)] = ing.id
    /\ RecordWritten

\* ------------------------------------- SpecTopic: the topic oracle's call
\* messages of a group arrive with a short or a long text, with and without
\* a mention and a question, and the topic oracle answers or fails
InitTopic ==
    /\ now = 1
    /\ config \in {c \in Configs :
                        /\ c.ignore_muted_chats /\ ~c.ignore_large_groups
                        /\ ~c.ai_enabled /\ c.max_messages_per_summary = 1}
    /\ messages = <<>>
    /\ user_prefs \in {{}, {PrefRow}}
    /\ muted_chats = {}
    /\ group_sizes = <<>>
    /\ run = [r \in Runners |-> IdleRun]
    /\ sent = {}
    /\ OthersIdle

NextTopic ==
    \/ \E length \in {5, 101}, m \in BOOLEAN, q \in BOOLEAN :
            /\ Len(messages) < MaxIngest
            /\ IngestReceive(2, "other", length, m, q, FALSE)
    \/ IngestFilter
    \/ \E o \in TopicOutcomes : IngestTopic(o)
    \/ IngestPersist
    \/ IngestPersistFail
    \/ IngestThreshold
    \/ AlertSend
    \/ AlertMark

SpecTopic == InitTopic /\ [][NextTopic]_vars

\* the call of the topic oracle ends in a timeout or an error
TopicCallFails ==
    ing.pc = "topic" /\ ing'.pc # "topic" /\ ing'.topic_call \in {"timeout", "error"}

\* in every step: a failed topic call leaves the score alone and hands a
\* null topic to the write; the row written carries the score, the flags
\* and the topic of the event; and the alert is decided by the score and
\* the threshold alone, whatever the topic call ended in
C35_Step ==
    /\ TopicCallFails =>
            /\ ing'.pc = "persist"
            /\ ing'.topic = None
            /\ ing'.score = ing.score
    /\ Len(messages') # Len(messages) =>
            LET row == messages'[Len(messages')]
            IN  /\ row.priority_score = ing.score
                /\ row.has_mention = ing.has_mention
                /\ row.is_question = ing.is_question
                /\ row.message_length = ing.length
                /\ row.topic_summary = ing.topic
                /\ ing.topic_call \in {"timeout", "error"} => row.topic_summary = None
    /\ (ing.pc = "threshold" /\ ing'.pc # "threshold") =>
            /\ ing'.pc = "alert" <=> ing.score >= ing'.threshold
            /\ ing'.pc = "idle" <=> ing.score < ing'.threshold
            /\ ing'.threshold \in
                    {config.warning_threshold_score}
                    \cup {p.warning_threshold_score : p \in user_prefs}

\* C35: when the topic oracle call times out or fails, the record is still
\* persisted with its score and derived flags and with a null topic label,
\* and the alert decision for it is the one a successful topic call would
\* have led to
C35_TopicIndependent == [][C35_Step]_vars

\* an alert was decided for a record whose topic call timed out
C35_Witness ==
    /\ ing.pc = "alert"
    /\ ing.topic_call = "timeout"
    /\ ing.id \in DOMAIN messages
    /\ messages[ing.id].topic_summary = None
    /\ messages[ing.id].priority_score = ing.score
    /\ messages[ing.id].has_mention

\* ------------------------------- SpecFilter: the mute filter of ingestion
\* stored preferences with the mute filter on and the group filter off
MutingPrefRow ==
    [min_priority_score |-> 1, warning_threshold_score |-> 3,
     ignore_large_groups |-> FALSE, max_group_size |-> 2,
     ignore_muted_chats |-> TRUE]

InitFilter ==
    /\ now = 1
    /\ config \in {c \in Configs : ~c.ai_enabled /\ c.max_messages_per_summary = 1}
    /\ messages = <<>>
    /\ user_prefs \in {{}, {PrefRow}, {MutingPrefRow}}
    /\ muted_chats \in SUBSET Chats
    /\ group_sizes \in {<<>>, SizesOfTwo}
    /\ run = [r \in Runners |-> IdleRun]
    /\ sent = {}
    /\ OthersIdle

NextFilter ==
    \/ \E c \in Chats, sender \in {"other", "self"} :
            IngestReceive(c, sender, 101, TRUE, TRUE, FALSE)
    \/ IngestFilter
    \/ IngestTopic(TopicDown)
    \/ IngestPersist
    \/ IngestPersistFail
    \/ IngestThreshold
    \/ AlertSend
    \/ AlertMark
    \/ AlertMarkLocked

SpecFilter == InitFilter /\ [][NextFilter]_vars

\* the filter check of the handler runs in this step
FilterRuns == ing.pc = "prefs" /\ ing'.pc # "prefs"

\* the mute filter toggle is on in every source the handler may take it
\* from: the stored preferences, and the configuration it falls back to
\* when no preferences are stored or loading them raised
MuteFilterActive ==
    /\ config.ignore_muted_chats
    /\ user_prefs # {} => (CHOOSE p \in user_prefs : TRUE).ignore_muted_chats

C22_Step ==
    (FilterRuns /\ MuteFilterActive /\ ing.chat \in muted_chats) =>
        /\ ing'.pc = "idle"
        /\ ing'.outcome \in {"dropped_muted", "dropped_oversized"}
        /\ ing'.id = 0
        /\ messages' = messages
        /\ alerts' = alerts

\* an event that was dropped has left the handler without a record
C22_Dropped ==
    ing.outcome \in {"dropped_muted", "dropped_oversized"} =>
        ing.pc = "idle" /\ ing.id = 0

\* C22: when the mute filter toggle is active, an inbound message whose
\* mute-check identifier (the sender's identity in a private conversation,
\* the conversation's identifier in a group or channel) is in the mute cache
\* when the filter check runs is dropped: no record is persisted and no
\* alert is dispatched for it
C22_MuteFilter == []C22_Dropped /\ [][C22_Step]_vars

\* after one message was persisted and alerted, a message of a muted
\* private chat was dropped by the mute filter
C22_Witness ==
    /\ ing.pc = "idle"
    /\ ing.outcome = "dropped_muted"
    /\ get_chat_type(ing.chat) = "private"
    /\ ing.chat \in muted_chats
    /\ MuteFilterActive
    /\ Len(messages) = 1
    /\ Len(alerts) = 1

\* ------------------------------ SpecIsolate: one message after another
\* messages of one kind arrive one after the other; the oracle, the session
\* and the alert may fail for each of them
InitIsolate ==
    /\ now = 1
    /\ config \in {c \in Configs :
                        /\ c.ignore_muted_chats /\ ~c.ignore_large_groups
                        /\ c.max_messages_per_summary = 1}
    /\ messages = <<>>
    /\ user_prefs \in {{}, {PrefRow}}
    /\ muted_chats = {}
    /\ group_sizes = <<>>
    /\ run = [r \in Runners |-> IdleRun]
    /\ sent = {}
    /\ OthersIdle

NextIsolate ==
    \/ IngestReceive(2, "other", 101, TRUE, TRUE, FALSE)
    \/ IngestFilter
    \/ IngestOracle
    \/ IngestTopic(TopicDown)
    \/ IngestPersist
    \/ IngestPersistFail
    \/ IngestThreshold
    \/ AlertSend
    \/ AlertMark
    \/ AlertMarkLocked

SpecIsolate == InitIsolate /\ [][NextIsolate]_vars

\* the ways the processing of a message ends in a caught exception
Failures == {"score_error", "error", "alert_failed", "alert_unmarked"}

\* the step in which the handler returns from a message
Returns == ing.pc # "idle" /\ ing'.pc = "idle"

\* the step in which the handler takes the next message
Receives == ing.pc = "idle" /\ ing' # ing

C19_Step ==
    /\ (Returns /\ ing'.outcome \in Failures) =>
           /\ messages' = messages
           /\ alerts' = alerts
           /\ user_prefs' = user_prefs /\ muted_chats' = muted_chats
           /\ group_sizes' = group_sizes
    /\ (Returns /\ ing'.outcome = "error") => ing.id = 0
    /\ Receives =>
           /\ ing'.pc = "prefs" /\ ing'.outcome = "none"
           /\ ing'.score = None /\ ing'.id = 0 /\ ing'.threshold = None
           /\ ing'.oracle = NoOracle /\ ing'.attempt = 0
           /\ messages' = messages /\ alerts' = alerts

\* C19: an exception while a message is scored, persisted or alerted on ends
\* the processing of that message and nothing else: the step in which it is
\* caught changes no record, no alert and no cache, a failed write leaves no
\* record, the handler is back at rest, and the next message is taken from
\* there with nothing of the failed one carried over
C19_FailureIsolation ==
    /\ []((ing.pc = "idle" /\ Len(messages) < MaxMsgs)
              => ENABLED IngestReceive(2, "other", 101, TRUE, TRUE, FALSE))
    /\ []((ing.pc = "idle" /\ ing.outcome = "error")
              => ing.id \notin DOMAIN messages)
    /\ [][C19_Step]_vars

\* the alert of the first record failed (it is at or above every threshold,
\* no alert went out, the flag is false), and the message after it was
\* persisted and alerted on
C19_Witness ==
    /\ Len(messages) = 2
    /\ messages[1].priority_score >= 5
    /\ AlertCount(1) = 0 /\ ~messages[1].warning_sent
    /\ ing.outcome = "alerted" /\ ing.id = 2
    /\ AlertCount(2) = 1 /\ messages[2].warning_sent

\* --------------------------------------- SpecMute: mute, unmute and sweep
InitMute ==
    /\ now = 1
    /\ config \in {c \in Configs :
                        /\ c.ignore_muted_chats /\ ~c.ignore_large_groups
                        /\ ~c.ai_enabled /\ c.max_messages_per_summary = 1}
    /\ messages = <<NewMessage(2, 2, 1)>>
    /\ user_prefs = {}
    /\ tg_muted \in {{}, {1}}
    /\ muted_chats = tg_muted
    /\ group_sizes = <<>>
    /\ run = [r \in Runners |-> IdleRun]
    /\ sent = {}
    /\ ing = IdleIng
    /\ alerts = <<>>
    /\ cb \in {IdleCb, [IdleCb EXCEPT !.card = MutedCard]}
    /\ sweep = IdleSweep
    /\ size_sweep = IdleSizeSweep
    /\ app = RunningApp

NextMute ==
    \/ \E id \in {1, 2}, c \in Chats : MutePress(id, c)
    \/ \E id \in {1, 2}, c \in Chats : UnmutePress(id, c)
    \/ MuteStart
    \/ MuteLookup
    \/ MuteEntity
    \/ MuteRequest
    \/ MuteConfirm
    \/ SweepStart
    \/ \E c \in Chats : SweepDialog(c)
    \/ SweepInstall
    \/ SweepAbort

SpecMute == InitMute /\ [][NextMute]_vars

\* the step in which refresh_muted_chats installs its result
SweepInstalls == sweep.pc = "iter" /\ sweep'.pc = "idle" /\ sweep.todo = {}

C4_Step ==
    /\ (cb.kind = "mute" /\ cb.pc = "request" /\ cb'.pc = "confirm")
           => cb.chat \in muted_chats'
    /\ (cb.kind = "mute" /\ cb.pc = "confirm" /\ cb.chat \in muted_chats
            /\ ~SweepInstalls)
           => cb.chat \in muted_chats'

\* C4: when the transport call of a mute action succeeds, the conversation is
\* put into the mute cache in that same step, and it is in the cache from
\* then until the action returns unless a refresh installs its result in
\* between; no refresh is needed for it to get there
C4_OptimisticMute == [][C4_Step]_vars

\* the mute was confirmed by the transport and the chat is in the cache while
\* a refresh that started before the mute has already passed the chat by
C4_Witness ==
    /\ cb.kind = "mute" /\ cb.pc = "confirm"
    /\ cb.chat \in muted_chats
    /\ sweep.pc = "iter"
    /\ cb.chat \notin sweep.todo /\ cb.chat \notin sweep.acc

\* the step in which the transport call of a mute or unmute action raises
TransportFails == cb.pc \in {"entity", "request"} /\ cb'.pc = "idle"

C5_Step ==
    /\ TransportFails =>
           /\ muted_chats' = muted_chats
           /\ cb'.reply = "transport_error"
           /\ cb'.card = <<"transport_error">>
    /\ (muted_chats' # muted_chats /\ ~SweepInstalls) =>
           cb.pc = "request" /\ cb'.pc = "confirm"

\* C5: when entity resolution or the request of a mute or unmute action
\* raises, that step leaves the mute cache as it was and answers the user with
\* the error; the only step of an action that changes the cache is the one in
\* which the request succeeds
C5_AbortBeforeUpdate == [][C5_Step]_vars

\* an unmute whose request failed: the chat is still in the cache
C5_Witness ==
    /\ cb.kind = "unmute" /\ cb.pc = "idle"
    /\ cb.reply = "transport_error"
    /\ cb.chat \in muted_chats

\* the step in which the request of a mute or unmute action succeeds
RequestSucceeds == cb.pc = "request" /\ cb'.pc = "confirm"

\* applying a cache update a second time changes nothing
C14_Twice ==
    \A S \in SUBSET Chats, c \in Chats :
        /\ add_muted_chat(add_muted_chat(S, c), c) = add_muted_chat(S, c)
        /\ remove_muted_chat(remove_muted_chat(S, c), c) = remove_muted_chat(S, c)
        /\ c \notin S => remove_muted_chat(S, c) = S

C14_Step ==
    /\ RequestSucceeds =>
           /\ cb.kind = "mute" => cb.chat \in muted_chats'
           /\ cb.kind = "unmute" => cb.chat \notin muted_chats'
           /\ \A c \in Chats \ {cb.chat} : c \in muted_chats' <=> c \in muted_chats
           /\ (cb.kind = "mute" /\ cb.chat \in muted_chats)
                  => muted_chats' = muted_chats
           /\ (cb.kind = "unmute" /\ cb.chat \notin muted_chats)
                  => muted_chats' = muted_chats
    /\ (cb.pc = "confirm" /\ cb'.pc = "idle") => cb'.reply = "confirmed"

\* C14: a successful mute leaves the conversation in the mute cache and a
\* successful unmute leaves it out, changing no other entry, so the same
\* action delivered twice leaves the cache as one delivery does; an unmute of
\* a conversation that is not in the cache is confirmed to the user, leaves
\* the cache as it was and adds no entry
C14_MuteIdempotent == []C14_Twice /\ [][C14_Step]_vars

\* the second delivery of an unmute: the card already shows the first one's
\* confirmation, the request succeeded again and the cache is without the chat
C14_Witness ==
    /\ cb.kind = "unmute" /\ cb.pc = "confirm"
    /\ cb.card = UnmutedCard
    /\ cb.snap = MutedCard
    /\ cb.chat \notin muted_chats

\* the transport holds c muted since a mute action and this step is not an
\* unmute of c: if c is in the cache it stays there
C23_Step ==
    \A c \in Chats :
        (c \in tg_muted /\ c \in tg_muted' /\ c \in muted_chats) => c \in muted_chats'

\* C23: after a successful mute action on a conversation the conversation
\* remains in the mute cache until an unmute action on it or the completion
\* of a mute sweep that started after the mute action; a sweep that was in
\* progress when the mute action ran does not erase the entry when it
\* completes. (A sweep that starts after the mute action finds the
\* conversation muted and keeps the entry, so only a sweep that was in
\* progress can take it out.)
C23_EntrySurvivesSweep == [][C23_Step]_vars

C25_Step == SweepInstalls => muted_chats' = sweep.acc

\* C25: when a mute sweep completes successfully the mute cache equals
\* exactly the set of conversations the sweep found muted, a full replace and
\* not a merge: an optimistic entry the sweep did not find muted is gone, and
\* an optimistically removed entry the sweep found muted is back
C25_SweepAuthoritative == [][C25_Step]_vars

\* a sweep has just installed a set without the conversation that the mute
\* action still under way put into the cache after the sweep had passed it
C25_Witness ==
    /\ sweep.pc = "idle"
    /\ cb.kind = "mute" /\ cb.pc = "confirm"
    /\ cb.chat \in tg_muted
    /\ cb.chat \notin muted_chats

\* the step in which a mute sweep ends with dialogs still to come
SweepAborts == sweep.pc = "iter" /\ sweep'.pc = "idle" /\ sweep.todo # {}

C29_Step == SweepAborts => sweep.acc \subseteq muted_chats'

\* C29: when the transport raises a rate-limit signal part-way through a
\* mute sweep, the sweep aborts early and keeps what was already gathered:
\* the mute cache afterwards holds the muted conversations found before the
\* signal. (Stated in its weakest reading: every conversation the sweep had
\* found muted is in the cache afterwards, whatever else the cache holds.)
C29_PartialKept == [][C29_Step]_vars

\* ---------------------------------------- SpecSizes: the group-size sweep
\* every content the size cache may have when a sweep starts
SizeMaps == UNION {[D -> Counts] : D \in SUBSET {c \in Dialogs : get_chat_type(c) = "group"}}

InitSizes ==
    /\ now = 1
    /\ config \in {c \in Configs :
                        /\ c.ignore_muted_chats /\ c.ignore_large_groups
                        /\ ~c.ai_enabled /\ c.max_messages_per_summary = 1}
    /\ messages = <<>>
    /\ user_prefs = {}
    /\ muted_chats = {}
    /\ group_sizes \in SizeMaps
    /\ run = [r \in Runners |-> IdleRun]
    /\ sent = {}
    /\ OthersIdle

NextSizes ==
    \/ \E ds \in SUBSET Dialogs : SizeSweepStart(ds)
    \/ \E c \in Dialogs : SizeSweepDialog(c)
    \/ SizeSweepInstall
    \/ SizeSweepAbort

SpecSizes == InitSizes /\ [][NextSizes]_vars

\* the step in which a group-size sweep ends
SizeSweepEnds == size_sweep.pc = "iter" /\ size_sweep'.pc = "idle"

\* the sweep ends having enumerated every dialog, no exception raised
SizeSweepCompletes ==
    SizeSweepEnds /\ ~size_sweep'.flood /\ size_sweep'.log # "failed"

C26_Step == SizeSweepCompletes => group_sizes' = size_sweep.acc

\* C26: when a group-size sweep enumerates all conversations without a
\* rate-limit signal, the size cache afterwards equals exactly the map the
\* sweep gathered, also when the sweep gathered no group at all (the
\* entries of groups that are no longer present are removed)
C26_ReplaceWholesale == [][C26_Step]_vars

\* a rate-limit signal of the transport ends the sweep
SizeSweepRateLimited == SizeSweepEnds /\ size_sweep'.flood

C27_Step ==
    (SizeSweepRateLimited /\ DOMAIN size_sweep.acc = {}) =>
        /\ group_sizes' = group_sizes
        /\ size_sweep'.log \in {"no_results", "failed"}

\* C27: when a group-size sweep is aborted by a rate-limit signal before any
\* participant count was gathered, the size cache after the sweep is
\* identical to the cache before it: it is not cleared
C27_EmptyAbortKeepsCache == [][C27_Step]_vars

\* a sweep was rate-limited at a participant-count request before it had
\* gathered a count, and the cache still holds its entries
C27_Witness ==
    /\ size_sweep.pc = "idle"
    /\ size_sweep.flood
    /\ size_sweep.log = "no_results"
    /\ DOMAIN group_sizes # {}

\* a turn of the loop after which the sweep goes on
SizeSweepContinues == size_sweep.pc = "iter" /\ size_sweep'.pc = "iter"

C28_Step ==
    /\ SizeSweepRateLimited =>
           IF DOMAIN size_sweep.acc # {}
           THEN group_sizes' = size_sweep.acc
           ELSE group_sizes' = group_sizes
    /\ SizeSweepContinues =>
           /\ group_sizes' = group_sizes
           /\ \E c \in size_sweep.todo :
                 /\ size_sweep'.todo = size_sweep.todo \ {c}
                 /\ \A x \in DOMAIN size_sweep.acc \ {c} :
                       x \in DOMAIN size_sweep'.acc
                       /\ size_sweep'.acc[x] = size_sweep.acc[x]
                 /\ DOMAIN size_sweep'.acc \subseteq DOMAIN size_sweep.acc \cup {c}

\* C28: when the transport raises a rate-limit signal during a group-size
\* sweep, the sweep stops enumerating, ends in that step without waiting,
\* and installs exactly the participant counts gathered before the signal
\* (the cache staying as it was if none was gathered); a failure on one
\* conversation that is not a rate limit only skips that conversation, and
\* the sweep goes on with the next
C28_RateLimitAbort == [][C28_Step]_vars

\* the stored preferences of a user who ignores groups from threshold on
PrefsWithSize(threshold) == {[PrefRow EXCEPT !.max_group_size = threshold]}

\* C36: for every cached participant count and every size threshold, the
\* ingestion filter drops a group's message as oversized if and only if the
\* group is in get_large_group_ids(threshold), the set digest selection
\* excludes, also when the count equals the threshold
C36_SameOversized ==
    \A threshold \in Counts : \A c \in DOMAIN group_sizes :
        OversizedAtIngestion(c, PrefsWithSize(threshold))
            <=> c \in get_large_group_ids(threshold)

\* a group the cache knew that the sweep in progress has not reached
Unreached(g) == g \in DOMAIN group_sizes /\ g \notin DOMAIN size_sweep.acc

\* in every step: a sweep that a rate limit ends with at least one count
\* gathered makes the cache the gathered map, so every group it did not
\* reach is gone from the cache, passes the oversized check of ingestion
\* and is in no oversized set of digest selection
C38_Step ==
    (SizeSweepRateLimited /\ DOMAIN size_sweep.acc # {}) =>
        /\ group_sizes' = size_sweep.acc
        /\ \A g \in Chats : Unreached(g) =>
                /\ g \notin DOMAIN group_sizes'
                /\ \A threshold \in Counts :
                        /\ ~OversizedAtIngestion(g, PrefsWithSize(threshold))'
                        /\ (g \notin get_large_group_ids(threshold))'

\* C38: a rate-limited partial group-size sweep that gathered at least one
\* count replaces the whole size cache with the partial result: every group
\* of the previous snapshot that the sweep did not reach is absent from the
\* cache afterwards and is treated as not oversized by ingestion and by
\* digest selection
C38_PartialReplaces == [][C38_Step]_vars

\* ------------------------- SpecSweep: both sweeps and the cache's readers
\* no inbound event, digest run or button press is being handled
FlowsIdle ==
    ing.pc = "idle" /\ run["job"].pc = "idle" /\ cb.pc = "idle" /\ cb.queue = <<>>

\* the two sweeps run at any time, next to each other and next to one of:
\* an inbound event, a scheduled digest, a mute or unmute action
InitSweep ==
    /\ now = 1
    /\ config \in {c \in Configs :
                        /\ c.ignore_muted_chats /\ c.ignore_large_groups
                        /\ ~c.ai_enabled /\ c.max_messages_per_summary = 1}
    /\ messages = <<NewMessage(2, 2, 1)>>
    /\ user_prefs = {}
    /\ tg_muted = {1}
    /\ muted_chats = tg_muted
    /\ group_sizes = <<>>
    /\ run = [r \in Runners |-> IdleRun]
    /\ sent = {}
    /\ ing = IdleIng
    /\ alerts = <<>>
    /\ cb = IdleCb
    /\ sweep = IdleSweep
    /\ size_sweep = IdleSizeSweep
    /\ app = RunningApp

NextSweep ==
    \/ /\ FlowsIdle
       /\ Len(messages) = 1
       /\ IngestReceive(2, "other", 101, FALSE, FALSE, FALSE)
    \/ IngestFilter
    \/ IngestTopic(TopicDown)
    \/ IngestPersist
    \/ IngestPersistFail
    \/ IngestThreshold
    \/ FlowsIdle /\ DigestStats("job")
    \/ DigestPlan("job")
    \/ DigestPrefs("job")
    \/ DigestSelect("job")
    \/ DigestMark("job")
    \/ DigestCommit("job")
    \/ DigestFail("job")
    \/ DigestDeliver("job")
    \/ FlowsIdle /\ MutePress(1, 2)
    \/ FlowsIdle /\ UnmutePress(1, 2)
    \/ MuteStart
    \/ MuteLookup
    \/ MuteEntity
    \/ MuteRequest
    \/ MuteConfirm
    \/ SweepStart
    \/ \E c \in Chats : SweepDialog(c)
    \/ SweepInstall
    \/ SweepAbort
    \/ SizeSweepStart({2})
    \/ \E c \in Dialogs : SizeSweepDialog(c)
    \/ SizeSweepInstall
    \/ SizeSweepAbort

SpecSweep == InitSweep /\ [][NextSweep]_vars

\* the mute cache changes only as a whole, to the set a sweep gathered, or by
\* the one conversation of a mute or unmute action; the size cache changes
\* only as a whole, to the map a sweep gathered
C24_Writes ==
    /\ muted_chats' # muted_chats =>
           \/ SweepInstalls /\ muted_chats' = sweep.acc
           \/ /\ RequestSucceeds
              /\ muted_chats' \in {muted_chats \cup {cb.chat}, muted_chats \ {cb.chat}}
    /\ group_sizes' # group_sizes =>
           SizeSweepEnds /\ size_sweep'.log = "refreshed" /\ group_sizes' = size_sweep.acc

\* what the filter of ingestion and the exclusion list of the digest take
\* from the caches is what the caches hold in the step that reads them
C24_Reads ==
    /\ (FilterRuns /\ ing'.outcome = "dropped_muted") => ing.chat \in muted_chats
    /\ (FilterRuns /\ ing'.outcome = "dropped_oversized") =>
           ing.chat \in DOMAIN group_sizes
    /\ (FilterRuns /\ ing'.pc = "topic") =>
           ing.chat \notin muted_chats /\ ing.chat \notin DOMAIN group_sizes
    /\ PlanExcludes("job") =>
           run'["job"].excluded =
               muted_chats \cup {c \in DOMAIN group_sizes :
                                    group_sizes[c] > config.max_group_size}

\* C24: at every interleaving of a cache sweep with ingestion, digest
\* selection and feedback actions, a reader of the mute set or of the size
\* map sees either the snapshot from before the sweep, with the optimistic
\* single-entry changes made since, or the complete result the sweep
\* installs, never a part of what the sweep will install
C24_SnapshotAtomicity == [][C24_Writes /\ C24_Reads]_vars

\* a digest took its exclusion list from the caches while the size sweep had
\* gathered group 2 but not installed it; the sweep has installed since, and
\* the mute sweep is part-way with a set that differs from the cache
C24_Witness ==
    /\ run["job"].pc \in {"prefs", "select"}
    /\ 2 \notin run["job"].excluded
    /\ size_sweep.pc = "idle" /\ size_sweep.log = "refreshed"
    /\ 2 \in DOMAIN group_sizes /\ group_sizes[2] > config.max_group_size
    /\ sweep.pc = "iter" /\ sweep.acc # {} /\ sweep.acc # muted_chats

\* ------------------------------- SpecReject: well-formed and other payloads
\* callback queries whose payload the keyboards would not build arrive among
\* the ones they do build, while the card still shows the buttons; record 1
\* exists, record 2 does not
InitReject ==
    /\ now = 1
    /\ config \in {c \in Configs :
                        /\ c.ignore_muted_chats /\ ~c.ignore_large_groups
                        /\ ~c.ai_enabled /\ c.max_messages_per_summary = 1}
    /\ messages = <<NewMessage(2, 2, 1)>>
    /\ user_prefs = {}
    /\ tg_muted \in {{}, {2}}
    /\ muted_chats = tg_muted
    /\ group_sizes = <<>>
    /\ run = [r \in Runners |-> IdleRun]
    /\ sent = {}
    /\ ing = IdleIng
    /\ alerts = <<>>
    /\ cb \in {IdleCb, [IdleCb EXCEPT !.card = MutedCard]}
    /\ sweep = IdleSweep
    /\ size_sweep = IdleSizeSweep
    /\ app = RunningApp

NextReject ==
    \/ \E parts \in {2, 3}, id \in {NoDigits, 0, 1, 2}, l \in {"high", "urgent"} :
          cb.queue = <<>> /\ cb.pc = "idle" /\ cb.card = Card
              /\ PressData("label", "label", parts, id, l, 0)
    \/ \E a \in {"mute_1h", "mute_2h"}, parts \in {3, 4}, id \in {NoDigits, 0, 1, 2},
          c \in {NoDigits, 2} :
          cb.queue = <<>> /\ cb.pc = "idle" /\ cb.card = Card
              /\ PressData("mute", a, parts, id, NULL, c)
    \/ \E parts \in {3, 4}, id \in {NoDigits, 0, 1, 2}, c \in {NoDigits, 2} :
          cb.queue = <<>> /\ cb.pc = "idle" /\ cb.card = MutedCard
              /\ PressData("unmute", "unmute", parts, id, NULL, c)
    \/ LabelStart
    \/ LabelSelect
    \/ LabelUpdate
    \/ LabelConfirm
    \/ MuteStart
    \/ MuteLookup
    \/ MuteEntity
    \/ MuteRequest
    \/ MuteConfirm

SpecReject == InitReject /\ [][NextReject]_vars

\* the payload q is malformed: wrong number of fields, an id or chat that is
\* no number, a label action with a non-positive id or a label outside
\* {high, medium, low}, a mute action with an unknown duration
Malformed(q) ==
    \/ q.parts # 3
    \/ q.id = NoDigits
    \/ q.kind = "label" /\ (q.id <= 0 \/ q.label \notin {"high", "medium", "low"})
    \/ q.kind \in {"mute", "unmute"} /\ q.chat = NoDigits
    \/ q.kind = "mute"
         /\ q.action \notin {"mute_1h", "mute_8h", "mute_1d", "mute_1w", "mute_forever"}

\* the answers that tell the user the action was rejected
Rejections ==
    {"invalid_format", "not_a_number", "invalid_id", "invalid_label",
     "unknown_duration", "error", "not_found"}

\* the step in which a handler takes the next callback query
Starts == cb.pc = "idle" /\ cb.queue # <<>> /\ cb'.queue = Tail(cb.queue)

\* the step leaves every record, the mute cache and the transport's state alone
NothingMutated ==
    messages' = messages /\ muted_chats' = muted_chats /\ tg_muted' = tg_muted

C15_Step ==
    /\ (Starts /\ Malformed(Head(cb.queue))) =>
           /\ cb'.pc = "idle"
           /\ cb'.reply \in Rejections \ {"not_found"}
           /\ cb'.card = <<cb'.reply>>
           /\ NothingMutated
    /\ (cb.pc \in {"label_select", "lookup"} /\ cb.id \notin DOMAIN messages) =>
           /\ cb'.pc = "idle"
           /\ cb'.reply = "not_found"
           /\ cb'.card = <<"not_found">>
           /\ NothingMutated
    /\ ~NothingMutated =>
           /\ cb.pc \in {"label_update", "request"}
           /\ cb.id \in DOMAIN messages

\* an action that is past its validation has a well-formed payload and an
\* existing record
C15_Validated ==
    cb.pc \in {"label_update", "label_confirm", "entity", "request", "confirm"} =>
        /\ cb.id \in DOMAIN messages
        /\ cb.kind = "label" => cb.label \in {"high", "medium", "low"}
        /\ cb.kind \in {"mute", "unmute"} => cb.chat # NoDigits

\* C15: a label, mute or unmute action whose payload is malformed (wrong
\* number of fields, non-numeric or non-positive record id, label outside
\* {high, medium, low}, unknown duration) or whose record does not exist ends
\* in a rejection shown to the user, changes no record and no cache entry,
\* and never gets to the transport call
C15_RejectedUnchanged == []C15_Validated /\ [][C15_Step]_vars

\* a mute action with an unknown duration was refused: the card shows the
\* refusal, and the chat is neither in the cache nor muted at Telegram
C15_Witness ==
    /\ cb.pc = "idle" /\ cb.kind = "mute"
    /\ cb.reply = "unknown_duration"
    /\ cb.card = <<"unknown_duration">>
    /\ cb.id \in DOMAIN messages
    /\ cb.chat \notin muted_chats /\ cb.chat \notin tg_muted

\* ---------------------------------------------------- SpecLabel: labeling
InitLabel ==
    /\ now = 1
    /\ config \in {c \in Configs :
                        /\ c.ignore_muted_chats /\ ~c.ignore_large_groups
                        /\ ~c.ai_enabled /\ c.max_messages_per_summary = 1}
    /\ messages \in {<<NewMessage(2, 2, 1)>>,
                     <<[NewMessage(2, 2, 1) EXCEPT !.label = "low", !.labeled_at = 1]>>}
    /\ user_prefs = {}
    /\ muted_chats = {}
    /\ group_sizes = <<>>
    /\ run = [r \in Runners |-> IdleRun]
    /\ sent = {}
    /\ OthersIdle

NextLabel ==
    \/ \E id \in 0..2, l \in Labels \cup {"urgent"} : LabelPress(id, l)
    \/ LabelStart
    \/ LabelSelect
    \/ LabelUpdate
    \/ LabelLocked
    \/ LabelConfirm
    \/ Tick

SpecLabel == InitLabel /\ [][NextLabel]_vars

\* C6: when the same label action is carried out twice on a record, the
\* record is stored after the second as it was after the first, and the user
\* gets the same confirmation both times
C6_LabelIdempotent ==
    (cb.prev.id # 0 /\ cb.prev.id = cb.last.id /\ cb.prev.label = cb.last.label)
        => (cb.last.row = cb.prev.row /\ cb.last.reply = cb.prev.reply)

\* the label handler is inside its retry loop
InRetryLoop == cb.kind = "label" /\ cb.pc \in {"label_select", "label_update"}

\* a step of the handler under way: a press only lengthens the queue
HandlerActs == cb' # cb /\ cb'.queue = cb.queue

\* attempt counts the attempts that failed: the one under way is attempt + 1
C31_AtMostThree ==
    cb.kind = "label" => cb.attempt + 1 <= max_retries

C31_Step ==
    /\ (InRetryLoop /\ cb'.pc = "label_confirm") =>
           /\ messages'[cb.id].label = cb.label
           /\ cb'.attempt = cb.attempt
    /\ (InRetryLoop /\ cb'.pc # "label_confirm") => messages' = messages
    /\ (InRetryLoop /\ cb'.pc = "idle" /\ cb.id \in DOMAIN messages) =>
           /\ cb.attempt + 1 = max_retries
           /\ cb'.reply = "db_error" /\ cb'.card = <<"db_error">>
           /\ cb'.queue = cb.queue
    /\ (InRetryLoop /\ HandlerActs /\ cb'.pc = "label_select") =>
           cb'.attempt = cb.attempt + 1
    /\ (cb.pc = "label_confirm" /\ HandlerActs /\ cb.card = cb.snap) =>
           /\ cb'.pc = "idle" /\ cb'.reply = "confirmed"
           /\ cb'.card = Append(cb.snap, cb.label)
           /\ messages' = messages

\* C31: under storage lock contention the label update is attempted at most
\* 3 times; if an attempt succeeds the label is set and, the card still
\* being as it was when the button was pressed, confirmed once; if all 3
\* fail the user is shown a failure, the record is left as it was, and the
\* handler returns without a further attempt
C31_BoundedLabelRetry == []C31_AtMostThree /\ [][C31_Step]_vars

\* the third attempt failed: the card shows the database error and the
\* record is still without a label
C31_Witness ==
    /\ cb.kind = "label" /\ cb.pc = "idle"
    /\ cb.reply = "db_error"
    /\ cb.attempt + 1 = max_retries
    /\ cb.id \in DOMAIN messages
    /\ messages[cb.id].label = NULL

\* --------------------------------------------- SpecShutdown: the shutdown
\* the application when run() reaches its finally clause: after a startup
\* that returned, or that raised with the engine missing or with some of the
\* components not started
AppStates ==
    {a \in [pc : {"running"}, scheduler : BOOLEAN, userbot_client : BOOLEAN,
             bot_app : BOOLEAN, engine : BOOLEAN, timers : BOOLEAN,
             stream : BOOLEAN, front_end : BOOLEAN, pool : {"none", "open"},
             order : {<<>>}, failed : {{}}] :
        /\ a.timers = a.scheduler
        /\ a.stream = a.userbot_client
        /\ a.front_end = a.bot_app
        /\ a.pool = (IF a.engine THEN "open" ELSE "none")
        /\ (~a.engine => ~a.scheduler /\ ~a.userbot_client /\ ~a.bot_app)}

InitShutdown ==
    /\ now = 1
    /\ config \in {c \in Configs :
                        /\ c.ignore_muted_chats /\ c.ignore_large_groups
                        /\ ~c.ai_enabled /\ c.max_messages_per_summary = 1}
    /\ messages = <<>>
    /\ user_prefs = {}
    /\ muted_chats = {}
    /\ group_sizes = <<>>
    /\ run = [r \in Runners |-> IdleRun]
    /\ sent = {}
    /\ ing = IdleIng
    /\ alerts = <<>>
    /\ cb = IdleCb
    /\ tg_muted = {}
    /\ sweep = IdleSweep
    /\ size_sweep = IdleSizeSweep
    /\ app \in AppStates

NextShutdown ==
    \/ ShutdownBegin
    \/ StopScheduler
    \/ StopUserbot
    \/ StopBot
    \/ CloseDatabase

SpecShutdown == InitShutdown /\ [][NextShutdown]_vars

\* the stop steps in the order shutdown() enters them
ShutdownSteps == <<"scheduler", "userbot", "bot", "database">>

\* the number of stop steps entered when shutdown() is at pc
StepsEntered(pc) ==
    CASE pc = "stop_scheduler" -> 0
      [] pc = "stop_userbot" -> 1
      [] pc = "stop_bot" -> 2
      [] pc = "close_database" -> 3
      [] pc = "done" -> 4
      [] OTHER -> 0

\* in every state: the stop steps entered so far are the first ones of
\* scheduler, userbot, bot, database, in this order, whichever of them
\* raised; a finished shutdown has entered all four; the pool is closed only
\* by the last step, after the stop of the timers and of the event stream
\* returned or raised; a step that returned has stopped its component
C33_Order ==
    /\ app.order = SubSeq(ShutdownSteps, 1, StepsEntered(app.pc))
    /\ app.failed \subseteq Range(app.order)
    /\ app.pool = "closed" =>
            /\ app.pc = "done"
            /\ {"scheduler", "userbot"} \subseteq Range(app.order)
    /\ (app.pc \notin {"running", "stop_scheduler"}
            /\ "scheduler" \notin app.failed) => ~app.timers
    /\ (app.pc \notin {"running", "stop_scheduler", "stop_userbot"}
            /\ "userbot" \notin app.failed) => ~app.stream

\* in every state: a closed pool means the timers and the event stream have
\* stopped
C33_ClosedAfterStopped == app.pool = "closed" => ~app.timers /\ ~app.stream

\* C33 as stated: shutdown stops the scheduler timers first, then the
\* event stream, then the command front-end, and closes the storage handle
\* last; each later step is attempted when an earlier one fails, and the
\* storage handle is never closed before the timers and the event stream
\* have been stopped
C33_AsStated == C33_Order /\ C33_ClosedAfterStopped

\* C33: shutdown enters the stop of the scheduler timers first, then of the
\* event stream, then of the command front-end, and closes the storage
\* handle last; each later step is attempted when an earlier one fails, and
\* the storage handle is never closed before the stop of the timers and of
\* the event stream has returned or raised
C33_ShutdownOrder == C33_Order

\* a shutdown that closed the pool after the stop of the scheduler raised
C33_Witness ==
    /\ app.pc = "done"
    /\ app.pool = "closed"
    /\ "scheduler" \in app.failed
    /\ app.order = ShutdownSteps

\* ------------------------------ SpecLoop: from a record's card to the filter
\* messages of both conversations arrive and are persisted; the mute and
\* the unmute button of a record's card carry that record's chat_id
\* (create_priority_keyboard); the sweep runs alongside
InitLoop ==
    /\ now = 1
    /\ config \in {c \in Configs :
                        /\ ~c.ignore_large_groups /\ ~c.ai_enabled
                        /\ c.max_messages_per_summary = 1}
    /\ messages = <<>>
    /\ user_prefs = {}
    /\ muted_chats = {}
    /\ group_sizes = <<>>
    /\ run = [r \in Runners |-> IdleRun]
    /\ sent = {}
    /\ OthersIdle

NextLoop ==
    \/ \E c \in Chats : IngestReceive(c, "other", 101, FALSE, FALSE, FALSE)
    \/ IngestFilter
    \/ IngestTopic(TopicDown)
    \/ IngestPersist
    \/ IngestThreshold
    \/ \E id \in DOMAIN messages :
            /\ cb.queue = <<>> /\ cb.pc = "idle"
            /\ MutePress(id, messages[id].chat_id)
    \/ \E id \in DOMAIN messages :
            /\ cb.queue = <<>> /\ cb.pc = "idle"
            /\ UnmutePress(id, messages[id].chat_id)
    \/ MuteStart
    \/ MuteLookup
    \/ MuteEntity
    \/ MuteRequest
    \/ MuteConfirm
    \/ SweepStart
    \/ \E c \in Chats : SweepDialog(c)
    \/ SweepInstall
    \/ SweepAbort

SpecLoop == InitLoop /\ [][NextLoop]_vars

\* the transport has accepted the mute request of the action in cb
MuteSucceeds == cb.kind = "mute" /\ cb.pc = "request" /\ cb'.pc = "confirm"

\* in every step: a record is stored under the identifier the mute filter
\* checks for its conversation; a successful mute action puts the chat_id
\* of its card's record into the cache; an entry leaves the cache only when
\* a sweep completes or an unmute request runs; and while the entry is
\* there and the mute filter is active, an event of that conversation is
\* dropped at the filter check and writes nothing
C37_Step ==
    /\ Len(messages') # Len(messages) =>
            messages'[Len(messages')].chat_id = check_id(ing.chat)
    /\ MuteSucceeds =>
            /\ cb.id \in DOMAIN messages
            /\ cb.chat = messages[cb.id].chat_id
            /\ cb.chat \in muted_chats'
    /\ muted_chats \ muted_chats' # {} =>
            \/ SweepInstalls
            \/ cb.kind = "unmute" /\ cb.pc = "request"
    /\ (FilterRuns /\ MuteFilterActive /\ check_id(ing.chat) \in muted_chats) =>
            /\ ing'.pc = "idle"
            /\ ing'.outcome = "dropped_muted"
            /\ messages' = messages

\* C37: the conversation identifier stored in a record is the identifier
\* the ingestion mute filter checks for that conversation, so after a
\* successful mute action taken from the record's card, with the mute
\* filter active, every later message of the conversation processed before
\* any sweep completes is dropped at the filter check
C37_SameKey == [][C37_Step]_vars

\* a message of the group was dropped after the group was muted from the
\* card of one of its records (the cache starts empty and no sweep can add
\* what no mute action has muted)
C37_Witness ==
    /\ ing.pc = "idle"
    /\ ing.outcome = "dropped_muted"
    /\ get_chat_type(ing.chat) = "group"
    /\ cb.pc = "idle"
    /\ cb.kind = "mute"
    /\ cb.id \in DOMAIN messages
    /\ messages[cb.id].chat_id = check_id(ing.chat)
    /\ cb.chat = check_id(ing.chat)
    /\ cb.chat \in muted_chats

\* ------------------------------------------- Spec: every flow of the bot
\* ingestion, the scheduled digest, the feedback handlers and the mute sweep
\* run concurrently on one store and one filter cache
Init ==
    /\ now = 1
    /\ config \in {c \in Configs :
                        /\ c.ignore_muted_chats /\ c.ignore_large_groups
                        /\ ~c.ai_enabled /\ c.max_messages_per_summary = 1}
    /\ messages = <<>>
    /\ user_prefs \in {{}, {PrefRow}}
    /\ muted_chats = {}
    /\ group_sizes \in {<<>>, SizesOfTwo}
    /\ run = [r \in Runners |-> IdleRun]
    /\ sent = {}
    /\ OthersIdle

Next ==
    \/ Len(messages) < MaxIngest /\ IngestReceive(2, "other", 101, TRUE, TRUE, FALSE)
    \/ IngestFilter
    \/ IngestTopic(TopicDown)
    \/ IngestPersist
    \/ IngestPersistFail
    \/ IngestThreshold
    \/ AlertSend
    \/ AlertMark
    \/ DigestStats("job")
    \/ DigestPlan("job")
    \/ DigestPrefs("job")
    \/ DigestSelect("job")
    \/ DigestMark("job")
    \/ DigestCommit("job")
    \/ DigestFail("job")
    \/ DigestDeliver("job")
    \/ cb.queue = <<>> /\ cb.pc = "idle" /\ LabelPress(1, "high")
    \/ LabelStart
    \/ LabelSelect
    \/ LabelUpdate
    \/ LabelConfirm
    \/ cb.queue = <<>> /\ cb.pc = "idle" /\ MutePress(1, 2)
    \/ cb.queue = <<>> /\ cb.pc = "idle" /\ UnmutePress(1, 2)
    \/ MuteStart
    \/ MuteLookup
    \/ MuteEntity
    \/ MuteRequest
    \/ MuteConfirm
    \/ SweepStart
    \/ \E c \in Chats : SweepDialog(c)
    \/ SweepInstall
    \/ SweepAbort

Spec == Init /\ [][Next]_vars

C3_Step ==
    /\ DOMAIN messages \subseteq DOMAIN messages'
    /\ \A i \in DOMAIN messages :
           messages[i].included_in_summary => messages'[i].included_in_summary
    /\ \A i \in DOMAIN messages' \ DOMAIN messages :
           ~messages'[i].included_in_summary

\* C3: whatever ingestion, digest, alert, label, mute or refresh step is
\* taken, a record starts with its inclusion flag false, and a flag that is
\* true stays true: it changes at most once, from false to true
C3_InclusionMonotonic == [][C3_Step]_vars

\* a record that was included in a digest, and then alerted on and labeled
C3_Witness ==
    \E i \in DOMAIN messages :
        /\ messages[i].included_in_summary
        /\ messages[i].label # NULL
        /\ messages[i].warning_sent

C9_Step ==
    /\ (ing.pc = "prefs" /\ ing'.outcome = "dropped_oversized")
           => ing.chat \in DOMAIN group_sizes
    /\ \A r \in Runners :
        (run[r].pc = "stats" /\ run'[r].pc = "prefs") =>
            \A g \in run'[r].excluded : g \in DOMAIN group_sizes \/ g \in muted_chats

\* C9: a group that is absent from the size cache is not in the set of large
\* groups, is not dropped as oversized at ingestion, and is not put into the
\* excluded set of a digest by the oversized filter, whatever the toggles are
C9_FailOpen ==
    /\ [](\A g \in Chats : g \notin DOMAIN group_sizes
                               => g \notin get_large_group_ids(config.max_group_size))
    /\ [][C9_Step]_vars

\* with the oversized filter switched on, a record of a group the cache does
\* not know was ingested and returned by a digest
C9_Witness ==
    /\ config.ignore_large_groups
    /\ run["job"].pc = "returned"
    /\ \E i \in Range(run["job"].result) :
           /\ get_chat_type(messages[i].chat_id) = "group"
           /\ messages[i].chat_id \notin DOMAIN group_sizes

\* the step in which a label action writes its label
LabelWrites == cb.kind = "label" /\ cb.pc = "label_update" /\ cb'.pc = "label_confirm"

C16_Step ==
    /\ \A i \in DOMAIN messages :
          /\ i \in DOMAIN messages'
          /\ messages'[i].label # messages[i].label =>
                 /\ LabelWrites
                 /\ cb.id = i
                 /\ messages'[i].label = cb.label
          /\ messages[i].label # NULL => messages'[i].label # NULL
    /\ \A i \in DOMAIN messages' \ DOMAIN messages : messages'[i].label = NULL

\* C16: the label of a record is unset or one of high, medium, low; a record
\* is created without a label; the only step that changes a label is the
\* update of a label action on that record, which writes the label of the
\* action (ingestion, alerting, digest, mute and refresh steps leave it as it
\* is); and a label that is set is never unset again
C16_LabelInvariant ==
    /\ [](\A i \in DOMAIN messages :
              messages[i].label \in {NULL, "high", "medium", "low"})
    /\ [][C16_Step]_vars

\* a record was labeled, its alert was marked, and a digest that ran
\* afterwards passed it over: the label is still there
C16_Witness ==
    /\ run["job"].outcome = "nothing"
    /\ ing.outcome = "alerted"
    /\ \E i \in DOMAIN messages :
          /\ messages[i].label = "high"
          /\ messages[i].warning_sent
          /\ ~messages[i].included_in_summary

C17_Step ==
    /\ \A i \in DOMAIN messages :
          /\ messages[i].warning_sent => messages'[i].warning_sent
          /\ messages'[i].warning_sent # messages[i].warning_sent =>
                 /\ ing.pc = "mark" /\ ing.id = i
                 /\ AlertCount(i) = 1
    /\ \A i \in DOMAIN messages' \ DOMAIN messages : ~messages'[i].warning_sent

\* C17: the alert-sent flag of a record starts false and the only change it
\* ever sees is the one from false to true, made by the alert dispatcher
\* after its send call for that record has succeeded; a record whose alert
\* was skipped (score below the threshold, no bot application) or whose send
\* raised keeps the flag false
C17_AlertFlag ==
    /\ [](\A i \in DOMAIN messages : messages[i].warning_sent => AlertCount(i) = 1)
    /\ []((Finished /\ ing.outcome \in {"saved", "alert_skipped", "alert_failed"})
              => ~messages[ing.id].warning_sent)
    /\ [][C17_Step]_vars

\* the flag of an alerted record is still true after a digest has marked and
\* delivered the record
C17_Witness ==
    /\ ing.outcome = "alerted"
    /\ ing.id \in sent
    /\ messages[ing.id].warning_sent
    /\ messages[ing.id].summary_sent_at # 0
    /\ AlertCount(ing.id) = 1


\* the records a digest run may take, by the columns the query names: the
\* window, the label, the inclusion flag, the score and the excluded chats
Eligible(r) ==
    {i \in DOMAIN messages :
        /\ messages[i].timestamp >= run[r].cutoff
        /\ messages[i].label = NULL
        /\ ~messages[i].included_in_summary
        /\ messages[i].priority_score >= run[r].min_priority
        /\ messages[i].chat_id \notin run[r].excluded}

\* in every step: the query of a digest run qualifies exactly the eligible
\* records, alerted or not, and returns one of them when there is any; and
\* the commit of the run marks what it returned, alerted or not
C39_Step ==
    /\ SelectReturns("job") =>
            /\ run'["job"].qual = Eligible("job")
            /\ Range(run'["job"].result) \subseteq Eligible("job")
            /\ Eligible("job") # {} => run'["job"].result # <<>>
    /\ RunReturns("job") =>
            \A k \in DOMAIN run["job"].result :
                /\ messages'[run["job"].result[k]].included_in_summary
                /\ messages'[run["job"].result[k]].warning_sent
                        = messages[run["job"].result[k]].warning_sent

\* C39: digest selection does not consult the alert-sent flag, so a record
\* for which an alert was sent and which the user has not labeled remains
\* eligible and can also be included in a later digest
C39_IndependentChannels == [][C39_Step]_vars

\* an unlabeled record with both flags true: alerted, then taken by a digest
C39_Witness ==
    \E i \in DOMAIN messages :
        /\ messages[i].warning_sent
        /\ messages[i].included_in_summary
        /\ messages[i].label = NULL
        /\ AlertCount(i) = 1
        /\ run["job"].pc = "returned"
        /\ i \in Range(run["job"].result)

=============================================================================
